---- MODULE Spec2Model ----
(***************************************************************************)
(* FileDB upload / retrieval pipeline (m00npl/filedb).                     *)
(*                                                                         *)
(* Spec       : UploadService.initiateUpload and the detached writer        *)
(*              uploadToBlockchainAsync in its two revisions, the session  *)
(*              store (Redis + in-memory fallback), the quota service and  *)
(*              the two storage back ends, over a ledger that accepts      *)
(*              every write.                                               *)
(* SpecWriter : one upload from the return of initiateUpload on, over a    *)
(*              ledger that may fail writes, with getFile reading along;   *)
(*              SpecWriterFair adds that the writer's awaits settle.       *)
(* SpecChunk  : the chunker as a pure function over byte sequences.        *)
(*                                                                         *)
(* One ledger / storage call together with the continuation that follows   *)
(* its await is one step.  Wall-clock time does not pass: block numbers    *)
(* and dates are frozen, TTLs never fire.                                  *)
(***************************************************************************)
EXTENDS Integers, Sequences, FiniteSets, TLC

(***************************************************************************)
(* Program constants                                                       *)
(***************************************************************************)
MAX_FILE_SIZE == 10485760
CHUNK_SIZE == 32768
DEFAULT_BTL_DAYS == 7
FREE_TIER_MAX_BYTES == 524288000
FREE_TIER_MAX_UPLOADS_PER_DAY == 50
BATCH_SIZE == 16
currentBlock == 1000000
BLOCKS_PER_DAY == 2880

ALLOWED_FILE_TYPES == {"text/plain", "application/pdf", "application/octet-stream"}

(***************************************************************************)
(* Bounds of the model                                                     *)
(***************************************************************************)
MaxFiles == 2
MaxSlots == 2
MaxLedgerFailures == 2
MaxChunks == 2
MaxLen == 5
MaxChunkSize == 3
MaxByte == 1
MaxClients == 3
MaxDays == 2
MaxUploads == 2
maxWriteConnections == 1
maxReadConnections == 1
retryAttempts == 2

FileIds == 1..MaxFiles
Slots == 1..MaxSlots
FirstKey == "k1"
Keys == {FirstKey, "k2"}

\* payload sizes offered to initiateUpload: one chunk, and one byte over the limit
Sizes == {11, MAX_FILE_SIZE + 1}
\* Content-Type header values, split at ';'
ContentTypes == {<<"text/plain", "charset=utf-8">>, <<"application/x-msdownload">>}
BtlChoices == {DEFAULT_BTL_DAYS}
\* usage a user can have accumulated before the modelled window
InitialUsages == {[used_bytes |-> 0, uploads_today |-> 0],
                  [used_bytes |-> FREE_TIER_MAX_BYTES - 11,
                   uploads_today |-> FREE_TIER_MAX_UPLOADS_PER_DAY - 1]}

UPLOADING == "uploading"
COMPLETED == "completed"
FAILED == "failed"

NoKey == <<>>

(***************************************************************************)
(* Chunker: chunkFile, createMetadata, reassembleFile, validateFileIntegrity*)
(***************************************************************************)
Min(a, b) == IF a < b THEN a ELSE b

RECURSIVE runLength(_)
\* length of the run of equal bytes raw starts with
runLength(raw) ==
  IF Len(raw) <= 1 THEN Len(raw)
  ELSE IF raw[2] = raw[1] THEN 1 + runLength(Tail(raw)) ELSE 1

RECURSIVE deflate(_)
\* the compressed stream of a gzip member, as a run-length code
deflate(raw) ==
  IF raw = <<>> THEN <<>>
  ELSE LET n == runLength(raw)
       IN <<[count |-> n, byte |-> Head(raw)]>> \o deflate(SubSeq(raw, n + 1, Len(raw)))

RECURSIVE inflate(_)
inflate(body) ==
  IF body = <<>> THEN <<>>
  ELSE [j \in 1..Head(body).count |-> Head(body).byte] \o inflate(Tail(body))

RECURSIVE crc32(_)
\* the check value of the gzip trailer
crc32(raw) ==
  IF raw = <<>> THEN 0 ELSE (31 * crc32(Tail(raw)) + Head(raw) + 1) % 65521

\* gzipSync(rawChunkData): header, compressed stream, trailer (CRC, input size)
gzipSync(raw) ==
  [magic |-> "1f8b", body |-> deflate(raw), crc |-> crc32(raw), isize |-> Len(raw)]

\* gunzipSync throws unless header and trailer match the stream
wellFormed(data) ==
  /\ data.magic = "1f8b"
  /\ Len(inflate(data.body)) = data.isize
  /\ crc32(inflate(data.body)) = data.crc

gunzipSync(data) == inflate(data.body)

\* sha-256, taken to be collision free: the digest stands for the content
calculateChecksum(content) == <<"sha256", content>>

\* the loop of chunkFile from offset i on:
\* for (...; i < fileBuffer.length; i += chunkSize) chunks.push(chunk)
RECURSIVE chunkLoop(_, _, _)
chunkLoop(buffer, size, i) ==
  IF i < Len(buffer)
  THEN LET rawChunkData == SubSeq(buffer, i + 1, Min(i + size, Len(buffer)))
       IN <<[chunk_index |-> i \div size, data |-> gzipSync(rawChunkData),
             original_size |-> Len(rawChunkData),
             checksum |-> calculateChecksum(rawChunkData)]>>
            \o chunkLoop(buffer, size, i + size)
  ELSE <<>>

\* variant: the loop stops where a whole window no longer fits
chunkFile_wholeWindows(buffer, size) ==
  SubSeq(chunkLoop(buffer, size, 0), 1, Len(buffer) \div size)

\* chunkFile: the loop from offset 0
chunkFile(buffer, size) == chunkLoop(buffer, size, 0)

\* createMetadata: the fields that depend on the payload
createMetadata(buffer, size) ==
  [total_size |-> Len(buffer), chunk_count |-> (Len(buffer) + size - 1) \div size,
   checksum |-> calculateChecksum(buffer)]

\* where chunks[i] goes: behind the chunks of a lower chunk_index and behind
\* the earlier chunks of the same one
insertByIndex(chunks, i) ==
  Cardinality({k \in 1..Len(chunks) :
                 \/ chunks[k].chunk_index < chunks[i].chunk_index
                 \/ chunks[k].chunk_index = chunks[i].chunk_index /\ k <= i})

\* chunks.sort((a, b) => a.chunk_index - b.chunk_index)
sortByChunkIndex(chunks) ==
  [j \in 1..Len(chunks) |->
     chunks[CHOOSE i \in 1..Len(chunks) : insertByIndex(chunks, i) = j]]

RECURSIVE concatData(_)
\* Buffer.concat(decompressedChunks)
concatData(sorted) ==
  IF sorted = <<>> THEN <<>>
  ELSE gunzipSync(Head(sorted).data) \o concatData(Tail(sorted))

\* variant: the chunks are concatenated in the order they arrive in
reassembleFile_unsorted(chunks) == concatData(chunks)

\* the chunks are sorted once, then decompressed and concatenated
reassembleFile(chunks) ==
  CHOOSE buffer \in {concatData(sorted) : sorted \in {sortByChunkIndex(chunks)}} : TRUE

\* variant: whatever was reassembled is accepted
validateFileIntegrity_lenient(originalChecksum, reassembledBuffer) == TRUE

validateFileIntegrity(originalChecksum, reassembledBuffer) ==
  originalChecksum = calculateChecksum(reassembledBuffer)

(***************************************************************************)
(* The upload pipeline sees a payload as its size and its chunks           *)
(***************************************************************************)
\* Math.ceil(fileBuffer.length / CONFIG.CHUNK_SIZE)
chunk_count(size) == (size + CHUNK_SIZE - 1) \div CHUNK_SIZE

\* the bytes of chunk number i of the payload identified by its size
Slice(size, i) == <<size, i>>

RECURSIVE SlicesUpTo(_, _)
SlicesUpTo(size, n) ==
  IF n = 0 THEN <<>> ELSE SlicesUpTo(size, n - 1) \o Slice(size, n - 1)

\* the payload: its slices one after the other
PayloadContent(size) == SlicesUpTo(size, chunk_count(size))

\* isValidFileType: contentType.split(";")[0].trim() is in the allowlist
isValidFileType(contentType) == Head(contentType) \in ALLOWED_FILE_TYPES

(***************************************************************************)
(* State                                                                   *)
(***************************************************************************)
VARIABLES
  storageMode,      \* CONFIG.STORAGE_MODE: "memory" | "arkiv"
  batchWriter,      \* TRUE: the writer revision that tries batches first
  cacheInitialized, \* QuotaService.cacheInitialized
  redisConnected,   \* RedisSessionStore.isConnected
  redisSessions,    \* the cache: idempotency key -> serialized session
  uploadSessions,   \* UploadService.uploadSessions: key -> session object (0: none)
  sessions,         \* the UploadSession objects, by file_id
  writer,           \* position of uploadToBlockchainAsync, by file_id
  store,            \* entities held by the storage back end
  keyCache,         \* the cache's entity-key index, by file_id
  calls,            \* the initiateUpload calls in flight, by request slot
  returned,         \* history: file_ids already returned to callers, by key
  reader,           \* the getFile call in flight
  faults,           \* faults the ledger still has in store for its writers
  userUsage,        \* QuotaService.userUsage (one user)
  quotaCache,       \* the cache entry quota:<user>
  quotaLedger,      \* the user's quota entities of today on the ledger
  quotaTask,        \* detached tail of updateUsage, by file_id
  fileBuffer,       \* SpecChunk: the payload, a sequence of bytes
  chunkSize,        \* SpecChunk: CONFIG.CHUNK_SIZE as configured
  chunkOrder,       \* SpecChunk: the chunks in the order they are handed back
  reassembled,      \* SpecChunk: how far the round trip is, and its result
  walletAccount,    \* SpecPool: a private key is configured
  isShutdown,       \* SpecPool: ArkivDBConnectionPool.isShutdown
  writeConnections, \* SpecPool: the write pool, connections by number
  readConnections,  \* SpecPool: the read pool, connections by number
  waitingForWrite,  \* SpecPool: callers waiting for a write connection, oldest first
  waitingForRead,   \* SpecPool: callers waiting for a read connection, oldest first
  pooled,           \* SpecPool: the PooledConnection objects created so far
  clients,          \* SpecPool: the executeWith*Connection calls, in the order they are made
  booting,          \* SpecPool: the creations initialize() still waits for
  shutdownPc,       \* SpecPool: position of shutdown()
  today,            \* SpecQuota: the calendar date, counted from the process start
  lastResetDate,    \* SpecQuota: QuotaService.lastResetDate of the user (0: not set)
  quotaCall,        \* SpecQuota: the checkQuota / getQuotaInfo call
  observed,         \* SpecQuota: history: the last quota value handed to a caller
  quotaDay,         \* SpecQuota: history: what happened on the current date, uploads so far
  fileAttributes,   \* SpecQuery: the fields createMetadata derives from the request, by file_id
  listing,          \* SpecQuery: the answer of the last query route
  retry,            \* SpecRetry: the retry wrapper around one ledger call
  expiry            \* SpecExpiry: one expiration_block computation

uploadVars == <<storageMode, batchWriter, cacheInitialized, redisConnected,
                redisSessions, uploadSessions, sessions, writer, store, keyCache,
                calls, returned, reader, faults, userUsage, quotaCache,
                quotaLedger, quotaTask>>
chunkVars == <<fileBuffer, chunkSize, chunkOrder, reassembled>>
poolVars == <<walletAccount, isShutdown, writeConnections, readConnections,
              waitingForWrite, waitingForRead, pooled, clients, booting, shutdownPc>>
dayVars == <<today, lastResetDate, quotaCall, observed, quotaDay>>
queryVars == <<fileAttributes, listing>>
timingVars == <<retry, expiry>>
vars == <<uploadVars, chunkVars, poolVars, dayVars, queryVars, timingVars>>

(***************************************************************************)
(* Records                                                                 *)
(***************************************************************************)
NoSession ==
  [exists |-> FALSE, idempotency_key |-> "", size |-> 0, btl_days |-> 0,
   status |-> UPLOADING, completed |-> FALSE, error |-> "",
   chunks_received |-> {}, chunks_uploaded_to_blockchain |-> 0,
   total_chunks |-> 0, metadata_entity_key |-> NoKey, chunk_entity_keys |-> <<>>]

\* the session literal built by initiateUpload
NewSession(key, size, btl) ==
  [exists |-> TRUE, idempotency_key |-> key, size |-> size, btl_days |-> btl,
   status |-> UPLOADING, completed |-> FALSE, error |-> "",
   chunks_received |-> {}, chunks_uploaded_to_blockchain |-> 0,
   total_chunks |-> chunk_count(size),
   metadata_entity_key |-> NoKey,
   chunk_entity_keys |-> [j \in 1..chunk_count(size) |-> NoKey]]

NoWriter == [pc |-> "none", i |-> 0, start |-> 0, fb |-> "none"]
IdleCall == [pc |-> "idle", key |-> "", size |-> 0, btl_days |-> 0, file_id |-> 0,
             repeat |-> FALSE, rivals |-> FALSE, error |-> ""]
IdleReader == [pc |-> "idle", file_id |-> 0, found |-> FALSE, completedAtStart |-> FALSE,
               success |-> FALSE, error |-> "", intact |-> FALSE]
NoQuotaEntry == [present |-> FALSE, used_bytes |-> 0, uploads_today |-> 0]
NoTask == [stage |-> "none", size |-> 0]
NoSnapshot == [present |-> FALSE, file_id |-> 0, status |-> UPLOADING, completed |-> FALSE,
               chunks_received |-> <<>>, chunks_uploaded_to_blockchain |-> 0,
               total_chunks |-> 0]
NoKeys == [present |-> FALSE, metadata_key |-> NoKey, chunk_keys |-> <<>>]

(***************************************************************************)
(* Session store: serialization and lookups                                *)
(***************************************************************************)
RECURSIVE SetToArray(_)
\* Array.from(set): the writer inserts indices in ascending order
SetToArray(S) ==
  IF S = {} THEN <<>>
  ELSE LET m == CHOOSE x \in S : \A y \in S : x <= y
       IN <<m>> \o SetToArray(S \ {m})

ArrayToSet(a) == {a[j] : j \in 1..Len(a)}

\* setSession: JSON.stringify of the session as it is at the call
serializeSession(f, s) ==
  [present |-> TRUE, file_id |-> f, status |-> s.status, completed |-> s.completed,
   chunks_received |-> SetToArray(s.chunks_received),
   chunks_uploaded_to_blockchain |-> s.chunks_uploaded_to_blockchain,
   total_chunks |-> s.total_chunks]

\* what a lookup hands to its caller
SessionView(found, f, status, completed, received, uploaded, total) ==
  [found |-> found, file_id |-> f, status |-> status, completed |-> completed,
   chunks_received |-> received, chunks_uploaded_to_blockchain |-> uploaded,
   total_chunks |-> total]

NotFound == SessionView(FALSE, 0, UPLOADING, FALSE, {}, 0, 0)

\* getSession: JSON.parse, chunks_received rebuilt as a Set
parseSession(d) ==
  SessionView(TRUE, d.file_id, d.status, d.completed, ArrayToSet(d.chunks_received),
              d.chunks_uploaded_to_blockchain, d.total_chunks)

ObjectView(f) ==
  LET s == sessions[f]
  IN SessionView(TRUE, f, s.status, s.completed, s.chunks_received,
                 s.chunks_uploaded_to_blockchain, s.total_chunks)

\* variant: a lookup that knows the cache only
findExistingSession_cacheOnly(idempotencyKey, redisOk) ==
  IF redisConnected /\ redisOk /\ redisSessions[idempotencyKey].present
  THEN parseSession(redisSessions[idempotencyKey])
  ELSE NotFound

\* findExistingSession; redisOk: the cache answers the GET
findExistingSession(idempotencyKey, redisOk) ==
  IF redisConnected /\ redisOk /\ redisSessions[idempotencyKey].present
  THEN parseSession(redisSessions[idempotencyKey])
  ELSE IF uploadSessions[idempotencyKey] # 0
       THEN ObjectView(uploadSessions[idempotencyKey])
       ELSE NotFound

getUploadStatus(idempotencyKey, redisOk) == findExistingSession(idempotencyKey, redisOk)

\* getUploadStatusByFileId: scan of the cache first, then of the in-memory map
getUploadStatusByFileId(f, redisOk) ==
  LET hits == {k \in Keys : redisSessions[k].present /\ redisSessions[k].file_id = f}
      mem == {k \in Keys : uploadSessions[k] = f}
  IN IF redisConnected /\ redisOk /\ hits # {}
     THEN parseSession(redisSessions[CHOOSE k \in hits : TRUE])
     ELSE IF mem # {} THEN ObjectView(f) ELSE NotFound

(***************************************************************************)
(* Storage back ends: ArkivMemoryStorage (db-chain) and ArkivStorage       *)
(***************************************************************************)
DEFAULT_BLOCK_TIME_SECONDS == 2

\* Math.floor(Date.now() / 1000 / blockTime) at the frozen clock reading
estimateCurrentBlock == 1700000000 \div DEFAULT_BLOCK_TIME_SECONDS

calculateExpirationBlock(btl_days) ==
  IF storageMode = "memory"
  THEN currentBlock + btl_days * BLOCKS_PER_DAY
  ELSE estimateCurrentBlock + btl_days * ((24 * 60 * 60) \div DEFAULT_BLOCK_TIME_SECONDS)

\* the slot of the metadata entity among the entities of a file
MetaIndex == 0 - 1

Entities(f, type) == {e \in store : e.file_id = f /\ e.type = type}

\* a metadata entity carries its fields as attributes (total_size among them),
\* a chunk entity the compressed bytes as payload
NoPayload == [magic |-> "", body |-> <<>>, crc |-> 0, isize |-> 0]

\* the key the ledger mints for the n-th entity created for (f, idx)
EntityKey(f, idx, n) == <<f, idx, n>>

\* buildChunkPayload + createEntity: the attribute chunk_index is chunk_index + 1
ArkivChunk(f, i, n) ==
  [type |-> "chunk", file_id |-> f, origin |-> i, chunk_index |-> i + 1,
   data |-> gzipSync(Slice(sessions[f].size, i)), total_size |-> 0, entity_key |-> EntityKey(f, i, n),
   expiration_block |-> calculateExpirationBlock(sessions[f].btl_days)]

ArkivMetadata(f, n) ==
  [type |-> "metadata", file_id |-> f, origin |-> MetaIndex, chunk_index |-> MetaIndex,
   data |-> NoPayload, total_size |-> sessions[f].size, entity_key |-> EntityKey(f, MetaIndex, n),
   expiration_block |-> calculateExpirationBlock(sessions[f].btl_days)]

\* the in-memory maps hold the objects themselves; no entity key is assigned
MemoryChunk(f, i) ==
  [type |-> "chunk", file_id |-> f, origin |-> i, chunk_index |-> i,
   data |-> gzipSync(Slice(sessions[f].size, i)), total_size |-> 0, entity_key |-> NoKey,
   expiration_block |-> calculateExpirationBlock(sessions[f].btl_days)]

MemoryMetadata(f) ==
  [type |-> "metadata", file_id |-> f, origin |-> MetaIndex, chunk_index |-> MetaIndex,
   data |-> NoPayload, total_size |-> sessions[f].size, entity_key |-> NoKey,
   expiration_block |-> calculateExpirationBlock(sessions[f].btl_days)]

\* storeChunk: the entities the store holds afterwards
storeChunk(st, f, i) ==
  IF storageMode = "memory"
  THEN IF \E e \in st : e.type = "chunk" /\ e.file_id = f /\ e.origin = i
       THEN st
       ELSE st \cup {MemoryChunk(f, i)}
  ELSE st \cup {ArkivChunk(f, i,
                  Cardinality({e \in st : e.type = "chunk" /\ e.file_id = f /\ e.origin = i}) + 1)}

\* storeMetadata
storeMetadata(st, f) ==
  IF storageMode = "memory"
  THEN {e \in st : ~(e.type = "metadata" /\ e.file_id = f)} \cup {MemoryMetadata(f)}
  ELSE st \cup {ArkivMetadata(f,
                  Cardinality({e \in st : e.type = "metadata" /\ e.file_id = f}) + 1)}

\* chunk.entity_key = result.entityKey (ArkivStorage only)
keyOfChunk(st, f, i) ==
  IF storageMode = "memory" THEN NoKey
  ELSE EntityKey(f, i, Cardinality({e \in st : e.type = "chunk" /\ e.file_id = f /\ e.origin = i}))

keyOfMetadata(st, f) ==
  IF storageMode = "memory" THEN NoKey
  ELSE EntityKey(f, MetaIndex, Cardinality({e \in st : e.type = "metadata" /\ e.file_id = f}))

RECURSIVE storeChunks(_, _, _, _)
\* the chunks lo .. hi-1, one after the other
storeChunks(st, f, lo, hi) ==
  IF lo >= hi THEN st ELSE storeChunks(storeChunk(st, f, lo), f, lo + 1, hi)

\* storage.storeBatch / storeBatchChunks exist on ArkivStorage only
hasStoreBatch == storageMode = "arkiv"

\* getMetadata: the live metadata entities of f (memory: unexpired only)
liveMetadata(f) ==
  IF storageMode = "memory"
  THEN {e \in Entities(f, "metadata") : e.expiration_block > currentBlock}
  ELSE Entities(f, "metadata")

\* getMetadata deletes an expired entry it meets (memory)
purgeExpired(st, f, type) ==
  IF storageMode = "memory"
  THEN {e \in st : ~(e.file_id = f /\ e.type = type /\ e.expiration_block <= currentBlock)}
  ELSE st

\* position of entity e among the entities S of a query ordered by chunk_index
\* (entities of one chunk_index: in the order they were created)
rankByIndex(S, e) ==
  LET copy(x) == IF x.entity_key = NoKey THEN 0 ELSE x.entity_key[3]
  IN Cardinality({x \in S : \/ x.chunk_index < e.chunk_index
                            \/ /\ x.chunk_index = e.chunk_index
                               /\ copy(x) <= copy(e)})

\* the entities of a query in the order of their chunk_index
byChunkIndex(S) ==
  [j \in 1..Cardinality(S) |-> CHOOSE e \in S : rankByIndex(S, e) = j]

\* getChunk(file_id, chunk_index): what it can hand back (no element: null).
\* memory: the map entry file_id_chunk_index, unless expired; ArkivStorage: a
\* chunk entity whose attribute chunk_index equals the argument (limit 1),
\* handed back under the index asked for
getChunk(f, chunk_index) ==
  LET found == IF storageMode = "memory"
               THEN {e \in Entities(f, "chunk") :
                       e.chunk_index = chunk_index /\ e.expiration_block > currentBlock}
               ELSE {e \in Entities(f, "chunk") : e.chunk_index = chunk_index}
  IN {[chunk_index |-> chunk_index, data |-> e.data] : e \in found}

\* getAllChunks. memory: chunk 0 .. chunk_count-1 of the live metadata, nothing
\* if one is missing; ArkivStorage: every chunk entity of the file, sorted
getAllChunks(f) ==
  IF storageMode = "memory"
  THEN LET live == {e \in Entities(f, "chunk") : e.expiration_block > currentBlock}
           meta == liveMetadata(f)
           n == IF meta = {} THEN 0 ELSE chunk_count((CHOOSE m \in meta : TRUE).total_size)
       IN IF meta = {} \/ \E i \in 0..(n - 1) : ~\E e \in live : e.chunk_index = i
          THEN <<>>
          ELSE byChunkIndex({e \in live : e.chunk_index \in 0..(n - 1)})
  ELSE byChunkIndex(Entities(f, "chunk"))

\* ArkivStorage.getFileEntityKeys: the key of the metadata entity the query
\* lists last and the keys of the chunk entities sorted by chunk_index
ledgerEntityKeys(f) ==
  LET metas == Entities(f, "metadata")
      last == CHOOSE m \in metas : \A o \in metas : o.entity_key[3] <= m.entity_key[3]
      sorted == byChunkIndex(Entities(f, "chunk"))
  IN [present |-> TRUE,
      metadata_key |-> IF metas = {} THEN NoKey ELSE last.entity_key,
      chunk_keys |-> [j \in 1..Len(sorted) |-> sorted[j].entity_key]]

\* UploadService.getFileEntityKeys: the cache's index (the revision that writes
\* one), else the ledger query, else no keys at all
getFileEntityKeys(f, redisOk) ==
  IF ~batchWriter /\ redisConnected /\ redisOk /\ keyCache[f].present
  THEN keyCache[f]
  ELSE IF storageMode = "arkiv" THEN ledgerEntityKeys(f)
       ELSE [present |-> TRUE, metadata_key |-> NoKey, chunk_keys |-> <<>>]

\* GET /files/:file_id/entities: total_entities
total_entities(entityKeys) ==
  (IF entityKeys.metadata_key # NoKey THEN 1 ELSE 0) + Len(entityKeys.chunk_keys)

(***************************************************************************)
(* QuotaService (one user)                                                 *)
(***************************************************************************)
QuotaEntry(used, uploads) == [present |-> TRUE, used_bytes |-> used, uploads_today |-> uploads]

\* the cache answers only while it is reachable
cacheUsable == cacheInitialized /\ redisConnected

\* ArkivStorage.getUserQuota: a query for today's quota entities with limit(1);
\* zeros when there is none and when the query fails
LedgerAnswers == quotaLedger \cup {QuotaEntry(0, 0)}

\* variant: the lookup counts the attempt as an upload
getUserQuota_counting(answer) ==
  LET q == IF cacheUsable /\ quotaCache.present THEN quotaCache
           ELSE IF storageMode = "arkiv" THEN answer
           ELSE IF userUsage.present THEN userUsage ELSE QuotaEntry(0, 0)
  IN [quota |-> q, usage |-> QuotaEntry(q.used_bytes, q.uploads_today + 1),
      cache |-> quotaCache]

\* getUserQuota: cache, then the ledger (read-through), then the in-process map.
\* answer: what ArkivStorage.getUserQuota returns if it is asked
getUserQuota(answer) ==
  IF cacheUsable /\ quotaCache.present
  THEN [quota |-> quotaCache, usage |-> userUsage, cache |-> quotaCache]
  ELSE IF storageMode = "arkiv"
       THEN [quota |-> answer, usage |-> userUsage,
             cache |-> IF cacheUsable THEN answer ELSE quotaCache]
       ELSE LET u == IF userUsage.present THEN userUsage ELSE QuotaEntry(0, 0)
            IN [quota |-> u, usage |-> u, cache |-> quotaCache]

\* variant: an upload that fills the quota to the last byte is turned away
quotaAllows_strict(quota, fileSize) ==
  /\ ~(quota.used_bytes + fileSize >= FREE_TIER_MAX_BYTES)
  /\ ~(quota.uploads_today >= FREE_TIER_MAX_UPLOADS_PER_DAY)

\* checkQuota, after the bypass test
quotaAllows(quota, fileSize) ==
  /\ ~(quota.used_bytes + fileSize > FREE_TIER_MAX_BYTES)
  /\ ~(quota.uploads_today >= FREE_TIER_MAX_UPLOADS_PER_DAY)

quotaReason(quota, fileSize) ==
  IF quota.used_bytes + fileSize > FREE_TIER_MAX_BYTES
  THEN "Quota exceeded"
  ELSE "Daily upload limit exceeded"

\* variant: updateUsage adds the bytes and leaves the upload count alone
chargedUsage_bytesOnly(fileSize) ==
  LET u == IF userUsage.present THEN userUsage ELSE QuotaEntry(0, 0)
  IN QuotaEntry(u.used_bytes + fileSize, u.uploads_today)

\* updateUsage, up to its first await: the in-process counter
chargedUsage(fileSize) ==
  LET u == IF userUsage.present THEN userUsage ELSE QuotaEntry(0, 0)
  IN QuotaEntry(u.used_bytes + fileSize, u.uploads_today + 1)

\* variant: updateUsage leaves the cache entry alone
cachedUsage_unwritten(snap) == quotaCache

\* updateUsage: redisCache.storeSessionData(`quota:${userId}`, JSON.stringify(quota)).
\* The cache serves the commands of a connection in the order they are sent, so
\* the write takes effect where it is issued.
cachedUsage(snap) == IF cacheUsable THEN snap ELSE quotaCache

\* what is left of updateUsage then: the detached storage.updateUserQuota
usageTask(stage, fileSize) ==
  IF storageMode = "arkiv" THEN [stage |-> stage, size |-> fileSize] ELSE NoTask

(***************************************************************************)
(* Initial state: a freshly started process                                *)
(***************************************************************************)
NotReassembled == [stage |-> "new", ok |-> FALSE, buffer |-> <<>>, valid |-> FALSE]

Clients == 1..MaxClients
\* the connections that can come to exist: one per caller, three of initialize()
ConnIds == 1..(MaxClients + 3)

\* a call of executeWithWriteConnection / executeWithReadConnection
IdleClient == [pc |-> "idle", kind |-> "read", handle |-> "none",
               conn |-> 0, attempt |-> 0, released |-> 0, outcome |-> "",
               error |-> ""]
NotBooted == [stage |-> "new", write |-> 0, read |-> 0]
\* no PooledConnection object (not created, or no longer referenced)
NoConnection == [isWriteClient |-> FALSE, isActive |-> FALSE]

\* the pool after its constructor
PoolInit ==
  /\ walletAccount \in BOOLEAN
  /\ isShutdown = FALSE
  /\ writeConnections = {}
  /\ readConnections = {}
  /\ waitingForWrite = <<>>
  /\ waitingForRead = <<>>
  /\ pooled = [c \in ConnIds |-> NoConnection]
  /\ clients = [p \in Clients |-> IdleClient]
  /\ booting = NotBooted
  /\ shutdownPc = "none"

\* the pool at rest, nobody using it
PoolIdle ==
  /\ PoolInit
  /\ walletAccount = FALSE

\* a checkQuota / getQuotaInfo call
IdleQuotaCall == [pc |-> "idle", op |-> "", size |-> 0, bypass |-> FALSE,
                  date |-> 0, first |-> FALSE, clean |-> FALSE, used_bytes |-> 0,
                  uploads_today |-> 0, allowed |-> FALSE, reason |-> ""]

\* the quota service on the day the process starts, nobody asking
DayIdle ==
  /\ today = 1
  /\ lastResetDate = 0
  /\ quotaCall = IdleQuotaCall
  /\ observed = [date |-> 0, used_bytes |-> 0, uploads_today |-> 0]
  /\ quotaDay = [seen |-> FALSE, charged |-> FALSE, uploads |-> 0]

\* createMetadata has not run for the file
NoAttributes == [original_filename |-> <<>>, content_type |-> <<>>,
                 file_extension |-> <<>>, owner |-> ""]
NoListing == [by |-> "", extension |-> <<>>, content_type |-> <<>>, owner |-> "",
              count |-> 0, files |-> {}]

\* no file described, no query made
NoRetry == [pc |-> "idle", fn |-> "", operation |-> "", maxRetries |-> 0,
            baseDelay |-> 0, maxDelay |-> 0, attempt |-> 0, calls |-> 0,
            delays |-> <<>>]
NoExpiry == [pc |-> "idle", storage |-> "", header |-> <<>>, btl_days |-> 0,
             nan |-> FALSE, block_duration |-> 0, now |-> 0, current_block |-> 0,
             expiration_block |-> 0]
TimingIdle ==
  /\ retry = NoRetry
  /\ expiry = NoExpiry

QueryIdle ==
  /\ fileAttributes = [f \in FileIds |-> NoAttributes]
  /\ listing = NoListing

\* the chunker at rest
ChunkIdle ==
  /\ fileBuffer = <<>>
  /\ chunkSize = CHUNK_SIZE
  /\ chunkOrder = <<>>
  /\ reassembled = NotReassembled

Init ==
  /\ storageMode \in {"memory", "arkiv"}
  /\ batchWriter \in BOOLEAN
  /\ \E redisAtBoot \in BOOLEAN :
       /\ cacheInitialized = redisAtBoot
       /\ redisConnected = redisAtBoot
  /\ redisSessions = [k \in Keys |-> NoSnapshot]
  /\ uploadSessions = [k \in Keys |-> 0]
  /\ sessions = [f \in FileIds |-> NoSession]
  /\ writer = [f \in FileIds |-> NoWriter]
  /\ store = {}
  /\ keyCache = [f \in FileIds |-> NoKeys]
  /\ calls = [s \in Slots |-> IdleCall]
  /\ returned = [k \in Keys |-> {}]
  /\ reader = IdleReader
  /\ faults = 0
  /\ \E q0 \in InitialUsages :
       LET e == IF q0.used_bytes = 0 /\ q0.uploads_today = 0
                THEN NoQuotaEntry ELSE QuotaEntry(q0.used_bytes, q0.uploads_today)
       IN /\ quotaLedger = IF storageMode = "arkiv" /\ e.present THEN {e} ELSE {}
          /\ quotaCache = IF storageMode = "memory" /\ redisConnected THEN e
                          ELSE NoQuotaEntry
  /\ userUsage = NoQuotaEntry
  /\ quotaTask = [f \in FileIds |-> NoTask]
  /\ ChunkIdle
  /\ PoolIdle
  /\ DayIdle
  /\ QueryIdle
  /\ TimingIdle

(***************************************************************************)
(* UploadService.initiateUpload                                            *)
(***************************************************************************)
\* initiateUpload is running (it has not returned yet)
InFlight(s) == calls[s].pc \in {"find", "store", "usage"}

\* return { success: false, error }: the slot keeps the error until the route
\* handler has answered. (return { success: true, file_id } frees the slot at
\* once; the file_id is recorded in returned.)
Failure(reason) == [IdleCall EXCEPT !.pc = "rejected", !.error = reason]

\* idempotency keys are interchangeable: the first one in use is called k1
keyInUse(k) ==
  \/ \E f \in FileIds : sessions[f].exists /\ sessions[f].idempotency_key = k
  \/ \E s \in Slots : InFlight(s) /\ calls[s].key = k

RECURSIVE SumOver(_, _)
SumOver(fn, S) ==
  IF S = {} THEN 0
  ELSE LET x == CHOOSE y \in S : TRUE IN fn[x] + SumOver(fn, S \ {x})

\* chunks of the sessions there are and of the payloads on their way in
chunksInPlay ==
  SumOver([f \in FileIds |-> sessions[f].total_chunks], FileIds)
  + SumOver([s \in Slots |-> IF calls[s].pc = "find"
                             THEN chunk_count(calls[s].size) ELSE 0], Slots)

\* checkQuota: the bypass for the unlimited key, else the limits
checkQuota(unlimited, quota, fileSize) == unlimited \/ quotaAllows(quota, fileSize)

\* the request enters: size check, type check, await checkQuota(...). The quota
\* lookup is taken to answer as the request enters.
StartCall(s, key, size, contentType, btl, unlimited, answer) ==
  /\ calls[s].pc = "idle"
  /\ \A o \in Slots : o < s => calls[o].pc # "idle"
  /\ key # FirstKey => keyInUse(FirstKey)
  /\ size <= MAX_FILE_SIZE => chunksInPlay + chunk_count(size) <= MaxChunks
  /\ LET g == getUserQuota(answer)
         admitted == /\ size <= MAX_FILE_SIZE
                     /\ isValidFileType(contentType)
                     /\ checkQuota(unlimited, g.quota, size)
         rivals == {o \in Slots \ {s} : InFlight(o) /\ calls[o].key = key}
     IN /\ IF size > MAX_FILE_SIZE \/ ~isValidFileType(contentType) \/ unlimited
           THEN UNCHANGED <<userUsage, quotaCache>>
           ELSE /\ userUsage' = g.usage
                /\ quotaCache' = g.cache
        /\ IF admitted
           THEN /\ calls' = [o \in Slots |->
                      IF o = s
                      THEN [IdleCall EXCEPT !.pc = "find", !.key = key, !.size = size,
                                            !.btl_days = btl,
                                            !.repeat = returned[key] # {},
                                            !.rivals = rivals # {}]
                      ELSE IF o \in rivals THEN [calls[o] EXCEPT !.rivals = TRUE]
                      ELSE calls[o]]
           ELSE calls' = [calls EXCEPT ![s] =
                     IF size > MAX_FILE_SIZE THEN Failure("File too large")
                     ELSE IF ~isValidFileType(contentType)
                          THEN Failure("File type not supported")
                          ELSE Failure(quotaReason(g.quota, size))]
  /\ UNCHANGED <<storageMode, batchWriter, cacheInitialized, redisConnected,
                 redisSessions, uploadSessions, sessions, writer, store, keyCache,
                 returned, reader, faults, quotaLedger, quotaTask, chunkVars, poolVars, dayVars, queryVars, timingVars>>

\* generateFileId: an identifier no session has had
FreshFileIds == {f \in FileIds : ~sessions[f].exists}
generateFileId == CHOOSE f \in FreshFileIds : \A g \in FreshFileIds : f <= g

\* variant: the writer begins with the metadata
launchedWriter_metadataFirst(total) == [NoWriter EXCEPT !.pc = "meta"]

\* uploadToBlockchainAsync up to its first await
launchedWriter(total) ==
  IF batchWriter /\ hasStoreBatch
  THEN IF total = 0 THEN [NoWriter EXCEPT !.pc = "done"]
       ELSE [NoWriter EXCEPT !.pc = "batch"]
  ELSE IF total = 0 THEN [NoWriter EXCEPT !.pc = "meta"]
       ELSE [NoWriter EXCEPT !.pc = "chunks"]

\* variant: the call hands back the session as the writer leaves it
launchedSession_awaited(sess) ==
  [sess EXCEPT !.completed = TRUE, !.status = COMPLETED,
               !.chunks_received = 0..(sess.total_chunks - 1),
               !.chunks_uploaded_to_blockchain = sess.total_chunks]

\* with no batch to run the batch loop ends at once with allSuccess
launchedSession(sess) ==
  IF batchWriter /\ hasStoreBatch /\ sess.total_chunks = 0
  THEN [sess EXCEPT !.completed = TRUE, !.status = COMPLETED]
  ELSE sess

\* from the session being stored to the end of the call (no await in between
\* except, in the batch revision, the one on updateUsage)
Commit(s, f, sess) ==
  /\ userUsage' = chargedUsage(calls[s].size)
  /\ quotaCache' = cachedUsage(chargedUsage(calls[s].size))
  /\ IF batchWriter
     THEN /\ quotaTask' = [quotaTask EXCEPT ![f] = usageTask("awaited", calls[s].size)]
          /\ calls' = [calls EXCEPT ![s].pc = "usage", ![s].file_id = f]
          /\ sessions' = [sessions EXCEPT ![f] = sess]
          /\ UNCHANGED <<writer, returned>>
     ELSE /\ quotaTask' = [quotaTask EXCEPT ![f] = usageTask("ledger", calls[s].size)]
          /\ sessions' = [sessions EXCEPT ![f] = launchedSession(sess)]
          /\ writer' = [writer EXCEPT ![f] = launchedWriter(sess.total_chunks)]
          /\ calls' = [calls EXCEPT ![s] = IdleCall]
          /\ returned' = [returned EXCEPT ![calls[s].key] = @ \cup {f}]

\* await findExistingSession(idempotencyKey), and what follows without an await
FindExisting(s, redisOk) ==
  /\ calls[s].pc = "find"
  /\ LET v == findExistingSession(calls[s].key, redisOk)
     IN IF v.found
        THEN /\ calls' = [calls EXCEPT ![s] = IdleCall]
             /\ returned' = [returned EXCEPT ![calls[s].key] = @ \cup {v.file_id}]
             /\ UNCHANGED <<uploadSessions, sessions, writer, userUsage, quotaCache,
                            quotaTask>>
        ELSE /\ FreshFileIds # {}
             /\ LET f == generateFileId
                    sess == NewSession(calls[s].key, calls[s].size, calls[s].btl_days)
                IN IF redisConnected
                   THEN /\ sessions' = [sessions EXCEPT ![f] = sess]
                        /\ calls' = [calls EXCEPT ![s].pc = "store", ![s].file_id = f]
                        /\ UNCHANGED <<uploadSessions, writer, returned, userUsage,
                                       quotaCache, quotaTask>>
                   ELSE /\ uploadSessions' = [uploadSessions EXCEPT ![calls[s].key] = f]
                        /\ Commit(s, f, sess)
  /\ UNCHANGED <<storageMode, batchWriter, cacheInitialized, redisConnected,
                 redisSessions, store, keyCache, reader, faults, quotaLedger,
                 chunkVars, poolVars, dayVars, queryVars, timingVars>>

\* await sessionStore.setSession(...) settles; on rejection the in-memory map
StoreSession(s, ok) ==
  /\ calls[s].pc = "store"
  /\ ok => redisConnected
  /\ LET f == calls[s].file_id
         k == calls[s].key
     IN /\ IF ok
           THEN /\ redisSessions' = [redisSessions EXCEPT ![k] =
                                        serializeSession(f, sessions[f])]
                /\ UNCHANGED uploadSessions
           ELSE /\ uploadSessions' = [uploadSessions EXCEPT ![k] = f]
                /\ UNCHANGED redisSessions
        /\ Commit(s, f, sessions[f])
  /\ UNCHANGED <<storageMode, batchWriter, cacheInitialized, redisConnected,
                 store, keyCache, reader, faults, quotaLedger, chunkVars, poolVars, dayVars, queryVars, timingVars>>

\* batch revision: await quotaService.updateUsage(...) resolves, then the writer
\* is started and the call returns
AfterUsage(s) ==
  /\ calls[s].pc = "usage"
  /\ LET f == calls[s].file_id
     IN /\ quotaTask' = [quotaTask EXCEPT ![f] =
               IF @.stage = "awaited" THEN [@ EXCEPT !.stage = "ledger"] ELSE @]
        /\ sessions' = [sessions EXCEPT ![f] = launchedSession(@)]
        /\ writer' = [writer EXCEPT ![f] = launchedWriter(sessions[f].total_chunks)]
        /\ calls' = [calls EXCEPT ![s] = IdleCall]
        /\ returned' = [returned EXCEPT ![calls[s].key] = @ \cup {f}]
  /\ UNCHANGED <<storageMode, batchWriter, cacheInitialized, redisConnected,
                 redisSessions, uploadSessions, store, keyCache, reader, faults,
                 userUsage, quotaCache, quotaLedger, chunkVars, poolVars, dayVars, queryVars, timingVars>>

\* the route handler answers a rejected request
Respond(s) ==
  /\ calls[s].pc = "rejected"
  /\ calls' = [calls EXCEPT ![s] = IdleCall]
  /\ UNCHANGED <<storageMode, batchWriter, cacheInitialized, redisConnected,
                 redisSessions, uploadSessions, sessions, writer, store, keyCache,
                 returned, reader, faults, userUsage, quotaCache, quotaLedger,
                 quotaTask, chunkVars, poolVars, dayVars, queryVars, timingVars>>

(***************************************************************************)
(* UploadService.uploadToBlockchainAsync                                   *)
(***************************************************************************)
\* a ledger write may fail (after its retries) on ArkivStorage only
MayFail == storageMode = "arkiv" /\ faults > 0

\* chunk i is stored: progress and the key the storage put on the chunk object
chunkStored(sess, st, f, i) ==
  [sess EXCEPT !.chunks_received = @ \cup {i},
               !.chunks_uploaded_to_blockchain = i + 1,
               !.chunk_entity_keys[i + 1] = keyOfChunk(st, f, i)]

\* a batch is stored: keys on the objects, progress by the batch's length
batchStored(sess, st, f, lo, hi) ==
  [sess EXCEPT !.chunks_received = @ \cup (lo..(hi - 1)),
               !.chunks_uploaded_to_blockchain = hi,
               !.chunk_entity_keys = [j \in 1..sess.total_chunks |->
                    IF j - 1 \in lo..(hi - 1) THEN keyOfChunk(st, f, j - 1) ELSE @[j]],
               !.metadata_entity_key = IF lo = 0 THEN keyOfMetadata(st, f) ELSE @]

\* variant: the status is set and the completed flag is left alone
completedSession_statusOnly(sess) == [sess EXCEPT !.status = COMPLETED]

completedSession(sess) == [sess EXCEPT !.completed = TRUE, !.status = COMPLETED]
failedSession(sess, msg) == [sess EXCEPT !.status = FAILED, !.error = msg]

WriterFrame == <<storageMode, batchWriter, cacheInitialized, redisConnected,
                 redisSessions, uploadSessions, calls, returned, reader,
                 userUsage, quotaCache, quotaLedger, quotaTask, chunkVars, poolVars, dayVars, queryVars, timingVars>>

\* one iteration of the batch loop: storeBatch (first batch) or storeBatchChunks
StoreBatch(f, ok) ==
  /\ writer[f].pc = "batch"
  /\ ~ok => MayFail
  /\ LET lo == writer[f].i
         hi == Min(lo + BATCH_SIZE, sessions[f].total_chunks)
         st == IF lo = 0 THEN storeMetadata(storeChunks(store, f, lo, hi), f)
               ELSE storeChunks(store, f, lo, hi)
     IN IF ok
        THEN /\ store' = st
             /\ sessions' = [sessions EXCEPT ![f] =
                   IF hi = sessions[f].total_chunks
                   THEN completedSession(batchStored(@, st, f, lo, hi))
                   ELSE batchStored(@, st, f, lo, hi)]
             /\ writer' = [writer EXCEPT ![f] =
                   IF hi = sessions[f].total_chunks
                   THEN [@ EXCEPT !.pc = "done", !.i = hi]
                   ELSE [@ EXCEPT !.i = hi]]
             /\ UNCHANGED <<faults, keyCache>>
        ELSE /\ writer' = [writer EXCEPT ![f] =
                   [@ EXCEPT !.pc = "fallback", !.start = lo, !.i = lo, !.fb = "running"]]
             /\ faults' = faults - 1
             /\ UNCHANGED <<store, sessions, keyCache>>
  /\ UNCHANGED WriterFrame

\* catch (batchError): one individual write of the loop from startChunk
FallbackChunk(f, ok) ==
  /\ writer[f].pc = "fallback"
  /\ ~ok => MayFail
  /\ LET i == writer[f].i
         st == storeChunk(store, f, i)
     IN IF ok
        THEN /\ store' = st
             /\ sessions' = [sessions EXCEPT ![f] = chunkStored(@, st, f, i)]
             /\ writer' = [writer EXCEPT ![f] =
                   IF i + 1 < sessions[f].total_chunks THEN [@ EXCEPT !.i = i + 1]
                   ELSE IF writer[f].start = 0 THEN [@ EXCEPT !.pc = "fbmeta", !.i = i + 1]
                   ELSE [@ EXCEPT !.pc = "chunks", !.i = 0, !.fb = "ok"]]
             /\ UNCHANGED faults
        ELSE \* the throw is caught by the inner catch: on to the individual pass
             /\ writer' = [writer EXCEPT ![f] =
                   [@ EXCEPT !.pc = "chunks", !.i = 0, !.fb = "failed"]]
             /\ faults' = faults - 1
             /\ UNCHANGED <<store, sessions>>
  /\ UNCHANGED <<keyCache, WriterFrame>>

\* if (batchIndex === 0) await storeMetadata(metadata); break -- allSuccess is
\* false, so the individual pass follows
FallbackMetadata(f, ok) ==
  /\ writer[f].pc = "fbmeta"
  /\ ~ok => MayFail
  /\ LET st == storeMetadata(store, f)
     IN IF ok
        THEN /\ store' = st
             /\ sessions' = [sessions EXCEPT ![f].metadata_entity_key = keyOfMetadata(st, f)]
             /\ writer' = [writer EXCEPT ![f] =
                   [@ EXCEPT !.pc = "chunks", !.i = 0, !.fb = "ok"]]
             /\ UNCHANGED faults
        ELSE /\ writer' = [writer EXCEPT ![f] =
                   [@ EXCEPT !.pc = "chunks", !.i = 0, !.fb = "failed"]]
             /\ faults' = faults - 1
             /\ UNCHANGED <<store, sessions>>
  /\ UNCHANGED <<keyCache, WriterFrame>>

\* the individual loop: for (i = 0; i < chunks.length; i++) await storeChunk
StoreChunk(f, ok) ==
  /\ writer[f].pc = "chunks"
  /\ ~ok => MayFail
  /\ LET i == writer[f].i
         st == storeChunk(store, f, i)
     IN IF ok
        THEN /\ store' = st
             /\ sessions' = [sessions EXCEPT ![f] = chunkStored(@, st, f, i)]
             /\ writer' = [writer EXCEPT ![f] =
                   IF i + 1 < sessions[f].total_chunks THEN [@ EXCEPT !.i = i + 1]
                   ELSE [@ EXCEPT !.pc = "meta", !.i = i + 1]]
             /\ UNCHANGED faults
        ELSE /\ sessions' = [sessions EXCEPT ![f] = failedSession(@, "Chunk upload failed")]
             /\ writer' = [writer EXCEPT ![f].pc = "done"]
             /\ faults' = faults - 1
             /\ UNCHANGED store
  /\ UNCHANGED <<keyCache, WriterFrame>>

\* await storeMetadata(metadata), then either the entity-key cache write
\* (individual revision, cache connected) or COMPLETED
StoreMetadata(f, ok) ==
  /\ writer[f].pc = "meta"
  /\ ~ok => MayFail
  /\ LET st == storeMetadata(store, f)
         withKey == [sessions[f] EXCEPT !.metadata_entity_key = keyOfMetadata(st, f)]
     IN IF ok
        THEN /\ store' = st
             /\ IF ~batchWriter /\ redisConnected
                THEN /\ sessions' = [sessions EXCEPT ![f] = withKey]
                     /\ writer' = [writer EXCEPT ![f].pc = "keys"]
                ELSE /\ sessions' = [sessions EXCEPT ![f] = completedSession(withKey)]
                     /\ writer' = [writer EXCEPT ![f].pc = "done"]
             /\ UNCHANGED faults
        ELSE /\ sessions' = [sessions EXCEPT ![f] = failedSession(@, "Failed to store metadata")]
             /\ writer' = [writer EXCEPT ![f].pc = "done"]
             /\ faults' = faults - 1
             /\ UNCHANGED store
  /\ UNCHANGED <<keyCache, WriterFrame>>

\* await sessionStore.setFileEntityKeys(...) settles (its error is swallowed)
CacheEntityKeys(f, ok) ==
  /\ writer[f].pc = "keys"
  /\ ok => redisConnected
  /\ keyCache' = IF ok
                 THEN [keyCache EXCEPT ![f] =
                        [present |-> TRUE,
                         metadata_key |-> sessions[f].metadata_entity_key,
                         chunk_keys |-> SelectSeq(sessions[f].chunk_entity_keys,
                                                  LAMBDA k : k # NoKey)]]
                 ELSE keyCache
  /\ sessions' = [sessions EXCEPT ![f] = completedSession(@)]
  /\ writer' = [writer EXCEPT ![f].pc = "done"]
  /\ UNCHANGED <<store, faults, WriterFrame>>

(***************************************************************************)
(* QuotaService.updateUsage: the part that runs after the caller moved on  *)
(***************************************************************************)
QuotaFrame == <<storageMode, batchWriter, cacheInitialized, redisConnected,
                redisSessions, uploadSessions, sessions, writer, store, keyCache,
                calls, returned, reader, faults, userUsage, chunkVars, poolVars, dayVars, queryVars, timingVars>>

\* storage.updateUserQuota raced against the 30 s timer: it reads the quota
\* entity and creates a new one; ok = FALSE: it throws or the timer wins
QuotaLedgerWrite(f, answer, ok) ==
  /\ quotaTask[f].stage = "ledger"
  /\ quotaLedger' = IF ok
                    THEN quotaLedger \cup
                           {QuotaEntry(answer.used_bytes + quotaTask[f].size,
                                       answer.uploads_today + 1)}
                    ELSE quotaLedger
  /\ quotaTask' = [quotaTask EXCEPT ![f] = NoTask]
  /\ UNCHANGED <<quotaCache, QuotaFrame>>

(***************************************************************************)
(* The external cache connection                                           *)
(***************************************************************************)
RedisFrame == <<storageMode, batchWriter, cacheInitialized, redisSessions,
                uploadSessions, sessions, writer, store, keyCache, calls, returned,
                reader, faults, userUsage, quotaCache, quotaLedger, quotaTask,
                chunkVars, poolVars, dayVars, queryVars, timingVars>>

\* client.on("disconnect" | "error")
RedisDisconnect ==
  /\ redisConnected
  /\ redisConnected' = FALSE
  /\ UNCHANGED RedisFrame

\* client.on("connect" | "ready")
RedisConnect ==
  /\ ~redisConnected
  /\ cacheInitialized
  /\ redisConnected' = TRUE
  /\ UNCHANGED RedisFrame

(***************************************************************************)
(* UploadService.getFile                                                   *)
(***************************************************************************)
ReaderFrame == <<storageMode, batchWriter, cacheInitialized, redisConnected,
                 redisSessions, uploadSessions, sessions, writer, keyCache, calls,
                 returned, faults, userUsage, quotaCache, quotaLedger, quotaTask,
                 chunkVars, poolVars, dayVars, queryVars, timingVars>>

\* await storage.getMetadata(file_id)
GetFileMetadata(f) ==
  /\ reader.pc \in {"idle", "done"}
  /\ store' = purgeExpired(store, f, "metadata")
  /\ reader' = IF liveMetadata(f) = {}
               THEN [IdleReader EXCEPT !.pc = "done", !.file_id = f,
                        !.completedAtStart = sessions[f].status = COMPLETED,
                        !.error = "File not found or expired"]
               ELSE [IdleReader EXCEPT !.pc = "chunks", !.file_id = f, !.found = TRUE,
                        !.completedAtStart = sessions[f].status = COMPLETED]
  /\ UNCHANGED ReaderFrame

\* await storage.getAllChunks(file_id), reassembleFile, validateFileIntegrity
GetFileChunks ==
  /\ reader.pc = "chunks"
  /\ \E chunks \in {getAllChunks(reader.file_id)} :
     \E buffer \in {reassembleFile(chunks)} :
       LET f == reader.file_id
           checksum == calculateChecksum(PayloadContent(sessions[f].size))
       IN /\ store' = purgeExpired(purgeExpired(store, f, "metadata"), f, "chunk")
          /\ reader' =
               IF chunks = <<>>
               THEN [reader EXCEPT !.pc = "done",
                                   !.error = "File chunks not found or incomplete"]
               ELSE IF ~validateFileIntegrity(checksum, buffer)
                    THEN [reader EXCEPT !.pc = "done",
                                        !.error = "File integrity check failed"]
                    ELSE [reader EXCEPT !.pc = "done", !.success = TRUE,
                                        !.intact = buffer = PayloadContent(sessions[f].size)]
  /\ UNCHANGED ReaderFrame

\* the inputs that decide the quota check of a request: whether it presents the
\* bypass key, and what the ledger answers if checkQuota has to ask it
Admissions(size, contentType) ==
  IF size > MAX_FILE_SIZE \/ ~isValidFileType(contentType)
  THEN {[unlimited |-> FALSE, answer |-> QuotaEntry(0, 0)]}
  ELSE {[unlimited |-> TRUE, answer |-> QuotaEntry(0, 0)]}
       \cup {[unlimited |-> FALSE, answer |-> q] :
               q \in IF storageMode = "arkiv" /\ ~(cacheUsable /\ quotaCache.present)
                     THEN LedgerAnswers ELSE {QuotaEntry(0, 0)}}

(***************************************************************************)
(* Spec: the upload pipeline, requests and writers, over a ledger that     *)
(* accepts every write                                                     *)
(***************************************************************************)
Next ==
  \/ \E s \in Slots, key \in Keys, size \in Sizes, contentType \in ContentTypes,
        btl \in BtlChoices :
       \E a \in Admissions(size, contentType) :
          StartCall(s, key, size, contentType, btl, a.unlimited, a.answer)
  \/ \E s \in Slots, redisOk \in BOOLEAN : FindExisting(s, redisOk)
  \/ \E s \in Slots, ok \in BOOLEAN : StoreSession(s, ok)
  \/ \E s \in Slots : AfterUsage(s)
  \/ \E s \in Slots : Respond(s)
  \/ \E f \in FileIds, ok \in BOOLEAN : StoreBatch(f, ok)
  \/ \E f \in FileIds, ok \in BOOLEAN : StoreChunk(f, ok)
  \/ \E f \in FileIds, ok \in BOOLEAN : StoreMetadata(f, ok)
  \/ \E f \in FileIds, ok \in BOOLEAN : CacheEntityKeys(f, ok)
  \/ \E f \in FileIds, ok \in BOOLEAN :
       \E answer \in (IF ok THEN LedgerAnswers ELSE {QuotaEntry(0, 0)}) :
          QuotaLedgerWrite(f, answer, ok)
  \/ RedisDisconnect
  \/ RedisConnect

Spec == Init /\ [][Next]_vars

(***************************************************************************)
(* SpecMetered: the upload pipeline with no request presenting the bypass  *)
(* key                                                                     *)
(***************************************************************************)
NextMetered ==
  \/ \E s \in Slots, key \in Keys, size \in Sizes, contentType \in ContentTypes,
        btl \in BtlChoices :
       \E a \in Admissions(size, contentType) :
          /\ ~a.unlimited
          /\ StartCall(s, key, size, contentType, btl, a.unlimited, a.answer)
  \/ \E s \in Slots, redisOk \in BOOLEAN : FindExisting(s, redisOk)
  \/ \E s \in Slots, ok \in BOOLEAN : StoreSession(s, ok)
  \/ \E s \in Slots : AfterUsage(s)
  \/ \E s \in Slots : Respond(s)
  \/ \E f \in FileIds, ok \in BOOLEAN : StoreBatch(f, ok)
  \/ \E f \in FileIds, ok \in BOOLEAN : StoreChunk(f, ok)
  \/ \E f \in FileIds, ok \in BOOLEAN : StoreMetadata(f, ok)
  \/ \E f \in FileIds, ok \in BOOLEAN : CacheEntityKeys(f, ok)
  \/ \E f \in FileIds, ok \in BOOLEAN :
       \E answer \in (IF ok THEN LedgerAnswers ELSE {QuotaEntry(0, 0)}) :
          QuotaLedgerWrite(f, answer, ok)
  \/ RedisDisconnect
  \/ RedisConnect

SpecMetered == Init /\ [][NextMetered]_vars

(***************************************************************************)
(* SpecWriter: one accepted upload, its writer over a ledger that may fail *)
(* up to MaxLedgerFailures writes, and downloads of the file               *)
(***************************************************************************)
WriterFile == CHOOSE f \in FileIds : \A g \in FileIds : f <= g
WriterSizes == {0, CHUNK_SIZE + 1, BATCH_SIZE * CHUNK_SIZE + 1}

\* the state in which initiateUpload has just returned WriterFile
InitWriter ==
  /\ storageMode \in {"memory", "arkiv"}
  /\ batchWriter \in BOOLEAN
  /\ redisConnected \in BOOLEAN
  /\ cacheInitialized = redisConnected
  /\ \E size \in WriterSizes :
       LET sess == NewSession(FirstKey, size, DEFAULT_BTL_DAYS)
           used == QuotaEntry(size, 1)
       IN /\ sessions = [f \in FileIds |->
                           IF f = WriterFile THEN launchedSession(sess) ELSE NoSession]
          /\ writer = [f \in FileIds |->
                         IF f = WriterFile THEN launchedWriter(sess.total_chunks)
                         ELSE NoWriter]
          /\ redisSessions = [k \in Keys |->
                                IF redisConnected /\ k = FirstKey
                                THEN serializeSession(WriterFile, sess) ELSE NoSnapshot]
          /\ uploadSessions = [k \in Keys |->
                                 IF ~redisConnected /\ k = FirstKey THEN WriterFile ELSE 0]
          /\ userUsage = used
          /\ quotaCache = IF redisConnected THEN used ELSE NoQuotaEntry
          /\ quotaLedger = IF storageMode = "arkiv" THEN {used} ELSE {}
  /\ store = {}
  /\ keyCache = [f \in FileIds |-> NoKeys]
  /\ calls = [s \in Slots |-> IdleCall]
  /\ returned = [k \in Keys |-> IF k = FirstKey THEN {WriterFile} ELSE {}]
  /\ reader = IdleReader
  /\ faults = MaxLedgerFailures
  /\ quotaTask = [f \in FileIds |-> NoTask]
  /\ ChunkIdle
  /\ PoolIdle
  /\ DayIdle
  /\ QueryIdle
  /\ TimingIdle

NextWriter ==
  \/ \E ok \in BOOLEAN : StoreBatch(WriterFile, ok)
  \/ \E ok \in BOOLEAN : FallbackChunk(WriterFile, ok)
  \/ \E ok \in BOOLEAN : FallbackMetadata(WriterFile, ok)
  \/ \E ok \in BOOLEAN : StoreChunk(WriterFile, ok)
  \/ \E ok \in BOOLEAN : StoreMetadata(WriterFile, ok)
  \/ \E ok \in BOOLEAN : CacheEntityKeys(WriterFile, ok)
  \/ RedisDisconnect
  \/ RedisConnect
  \/ GetFileMetadata(WriterFile)
  \/ GetFileChunks

SpecWriter == InitWriter /\ [][NextWriter]_vars

\* the awaits of the writer settle
WriterStep ==
  \/ \E ok \in BOOLEAN : StoreBatch(WriterFile, ok)
  \/ \E ok \in BOOLEAN : FallbackChunk(WriterFile, ok)
  \/ \E ok \in BOOLEAN : FallbackMetadata(WriterFile, ok)
  \/ \E ok \in BOOLEAN : StoreChunk(WriterFile, ok)
  \/ \E ok \in BOOLEAN : StoreMetadata(WriterFile, ok)
  \/ \E ok \in BOOLEAN : CacheEntityKeys(WriterFile, ok)

\* every call the writer awaits settles, so the writer keeps moving
SpecWriterFair == SpecWriter /\ WF_vars(WriterStep)

\* the reads getFile awaits settle; nothing is assumed of the writer, which
\* may stall for ever
SpecReaderFair == SpecWriter /\ WF_vars(GetFileChunks)

(***************************************************************************)
(* SpecChunk: chunkFile, then reassembleFile over the chunks in any order, *)
(* then validateFileIntegrity against the checksum of createMetadata       *)
(***************************************************************************)
Bytes == 0..MaxByte
Buffers == UNION {[1..n -> Bytes] : n \in 0..MaxLen}
ChunkSizes == 1..MaxChunkSize

\* the upload pipeline at rest
UploadIdle ==
  /\ storageMode = "memory"
  /\ batchWriter = FALSE
  /\ cacheInitialized = FALSE
  /\ redisConnected = FALSE
  /\ redisSessions = [k \in Keys |-> NoSnapshot]
  /\ uploadSessions = [k \in Keys |-> 0]
  /\ sessions = [f \in FileIds |-> NoSession]
  /\ writer = [f \in FileIds |-> NoWriter]
  /\ store = {}
  /\ keyCache = [f \in FileIds |-> NoKeys]
  /\ calls = [s \in Slots |-> IdleCall]
  /\ returned = [k \in Keys |-> {}]
  /\ reader = IdleReader
  /\ faults = 0
  /\ userUsage = NoQuotaEntry
  /\ quotaCache = NoQuotaEntry
  /\ quotaLedger = {}
  /\ quotaTask = [f \in FileIds |-> NoTask]

InitChunk ==
  /\ UploadIdle
  /\ PoolIdle
  /\ DayIdle
  /\ QueryIdle
  /\ TimingIdle
  /\ fileBuffer \in Buffers
  /\ chunkSize \in ChunkSizes
  /\ chunkOrder = <<>>
  /\ reassembled = NotReassembled

\* const chunks = chunkFile(fileBuffer, file_id) with the configured chunk size
ChunkFile ==
  /\ reassembled.stage = "new"
  /\ chunkOrder' = chunkFile(fileBuffer, chunkSize)
  /\ reassembled' = [reassembled EXCEPT !.stage = "chunked"]
  /\ UNCHANGED <<fileBuffer, chunkSize, uploadVars, poolVars, dayVars, queryVars, timingVars>>

\* the chunks come back in another order: two neighbours change places
SwapChunks(j) ==
  /\ reassembled.stage = "chunked"
  /\ j \in 1..(Len(chunkOrder) - 1)
  /\ chunkOrder' = [chunkOrder EXCEPT ![j] = chunkOrder[j + 1], ![j + 1] = chunkOrder[j]]
  /\ UNCHANGED <<fileBuffer, chunkSize, reassembled, uploadVars, poolVars, dayVars, queryVars, timingVars>>

\* reassembleFile(chunks), validateFileIntegrity(metadata.checksum, buffer)
Reassemble ==
  /\ reassembled.stage = "chunked"
  /\ LET ok == \A j \in 1..Len(chunkOrder) : wellFormed(chunkOrder[j].data)
         buffer == IF ok THEN reassembleFile(chunkOrder) ELSE <<>>
     IN reassembled' =
          [stage |-> "done", ok |-> ok, buffer |-> buffer,
           valid |-> ok /\ validateFileIntegrity(
                               createMetadata(fileBuffer, chunkSize).checksum, buffer)]
  /\ UNCHANGED <<fileBuffer, chunkSize, chunkOrder, uploadVars, poolVars, dayVars, queryVars, timingVars>>

NextChunk ==
  \/ ChunkFile
  \/ \E j \in 1..MaxLen : SwapChunks(j)
  \/ Reassemble

SpecChunk == InitChunk /\ [][NextChunk]_vars

\* C4: for every non-empty payload, reassembling the chunks chunkFile made of
\* it, handed back in whatever order, yields the payload byte for byte, and
\* validateFileIntegrity accepts it against the checksum of createMetadata
C4_RoundTrip ==
  (reassembled.stage = "done" /\ Len(fileBuffer) > 0)
    => /\ reassembled.ok
       /\ reassembled.buffer = fileBuffer
       /\ reassembled.valid

\* a payload of several chunks, of which some compress to fewer runs than
\* bytes, reassembled from an order that is not the ascending one
C4_Witness ==
  /\ reassembled.stage = "done"
  /\ Len(chunkOrder) >= 3
  /\ chunkOrder[1].chunk_index > chunkOrder[2].chunk_index
  /\ \E j \in 1..Len(chunkOrder) : Len(chunkOrder[j].data.body) < chunkOrder[j].data.isize
  /\ reassembled.buffer = fileBuffer

(***************************************************************************)
(* ArkivDBConnectionPool                                                   *)
(* The callers are numbered in the order of their calls.  A pool is kept   *)
(* as the set of its connections: find may return any idle one.            *)
(***************************************************************************)
Kinds == {"write", "read"}

maxConnections(kind) ==
  IF kind = "write" THEN maxWriteConnections ELSE maxReadConnections
poolOf(kind) == IF kind = "write" THEN writeConnections ELSE readConnections
waitersOf(kind) == IF kind = "write" THEN waitingForWrite ELSE waitingForRead

\* a PooledConnection as createWriteConnection / createReadConnection build it
newConnection(kind) == [isWriteClient |-> kind = "write", isActive |-> FALSE]

\* the PooledConnection objects still referenced by a pool or by a caller
collect(objects, inPools, callers) ==
  [c \in ConnIds |->
     IF c \in inPools
        \/ \E p \in Clients : callers[p].handle = "pooled" /\ callers[p].conn = c
     THEN objects[c] ELSE NoConnection]

\* connections.find(conn => !conn.isActive): the candidates
available(kind) == {c \in poolOf(kind) : ~pooled[c].isActive}

\* variant: the shutdown flag is not looked at
admission_open(kind) ==
  IF kind = "write" /\ ~walletAccount THEN "no key"
  ELSE IF available(kind) # {} THEN "available"
  ELSE IF Cardinality(poolOf(kind)) < maxConnections(kind) THEN "create"
  ELSE "wait"

\* the branch getWriteConnection / getReadConnection takes
admission(kind) ==
  IF isShutdown THEN "shutdown"
  ELSE IF kind = "write" /\ ~walletAccount THEN "no key"
  ELSE IF available(kind) # {} THEN "available"
  ELSE IF Cardinality(poolOf(kind)) < maxConnections(kind) THEN "create"
  ELSE "wait"

\* executeWith*Connection calls get*Connection: everything up to its first await
GetConnection(p, kind) ==
  /\ clients[p].pc = "idle"
  /\ \A q \in Clients : q < p => clients[q].pc # "idle"
  /\ LET how == admission(kind)
         me == [clients[p] EXCEPT !.kind = kind]
     IN \E found \in IF how = "available" THEN available(kind) ELSE {0} :
        /\ clients' = [clients EXCEPT ![p] =
             CASE how = "shutdown" ->
                    [me EXCEPT !.pc = "done", !.error = "Connection pool is shutdown"]
               [] how = "no key" ->
                    [me EXCEPT !.pc = "done",
                       !.error = "Write operations not available - no private key configured"]
               [] how = "available" ->
                    [me EXCEPT !.pc = "op", !.handle = "pooled",
                               !.conn = found, !.attempt = 1]
               [] how = "create" -> [me EXCEPT !.pc = "creating"]
               [] OTHER -> [me EXCEPT !.pc = "waiting"]]
        /\ pooled' = IF how = "available"
                     THEN [pooled EXCEPT ![found].isActive = TRUE]
                     ELSE pooled
        /\ waitingForWrite' = IF how = "wait" /\ kind = "write"
                              THEN Append(waitingForWrite, p) ELSE waitingForWrite
        /\ waitingForRead' = IF how = "wait" /\ kind = "read"
                             THEN Append(waitingForRead, p) ELSE waitingForRead
  /\ UNCHANGED <<uploadVars, chunkVars, dayVars, queryVars, timingVars, walletAccount, isShutdown,
                 writeConnections, readConnections, booting, shutdownPc>>

\* this.writeConnections.push(connection) / this.readConnections.push(connection)
pushed(kind, c) ==
  /\ pooled' = [pooled EXCEPT ![c] = newConnection(kind)]
  /\ writeConnections' = IF kind = "write" THEN writeConnections \cup {c}
                         ELSE writeConnections
  /\ readConnections' = IF kind = "read" THEN readConnections \cup {c}
                        ELSE readConnections

\* createWriteConnection / createReadConnection after its await: the client is
\* there, the connection is pushed and returned
CreateConnection(p) ==
  /\ clients[p].pc = "creating"
  /\ pushed(clients[p].kind, p)
  /\ clients' = [clients EXCEPT ![p].pc = "created", ![p].handle = "pooled",
                                ![p].conn = p]
  /\ UNCHANGED <<uploadVars, chunkVars, dayVars, queryVars, timingVars, walletAccount, isShutdown,
                 waitingForWrite, waitingForRead, booting, shutdownPc>>

\* the client could not be built in connectionTimeout: the error goes to the caller
CreateConnectionFails(p) ==
  /\ clients[p].pc = "creating"
  /\ clients' = [clients EXCEPT ![p].pc = "done", ![p].error = "Connection timeout"]
  /\ UNCHANGED <<uploadVars, chunkVars, dayVars, queryVars, timingVars, walletAccount, isShutdown,
                 writeConnections, readConnections, waitingForWrite,
                 waitingForRead, pooled, booting, shutdownPc>>

\* get*Connection resumes after await create*Connection(): newConn.isActive = true
Activate(p) ==
  /\ clients[p].pc = "created"
  /\ pooled' = [pooled EXCEPT ![clients[p].conn].isActive = TRUE]
  /\ clients' = [clients EXCEPT ![p].pc = "op", ![p].attempt = 1]
  /\ UNCHANGED <<uploadVars, chunkVars, dayVars, queryVars, timingVars, walletAccount, isShutdown,
                 writeConnections, readConnections, waitingForWrite,
                 waitingForRead, booting, shutdownPc>>

\* executeWithRetry: an attempt that is not the last one throws, the next follows
OperationRetries(p) ==
  /\ clients[p].pc = "op"
  /\ clients[p].attempt < retryAttempts
  /\ clients' = [clients EXCEPT ![p].attempt = @ + 1]
  /\ UNCHANGED <<uploadVars, chunkVars, dayVars, queryVars, timingVars, walletAccount, isShutdown,
                 writeConnections, readConnections, waitingForWrite,
                 waitingForRead, pooled, booting, shutdownPc>>

\* variant: the connection is given back only when the operation returned
exitPaths_returnOnly == {"returned"}

\* try { return await ... } finally { releaseConnection }: the ways out of the
\* try block on which the connection is released
exitPaths == {"returned", "threw"}

\* the queue releaseConnection(connection) looks at
queueOf(c) ==
  IF c.handle = "pooled" /\ pooled[c.conn].isWriteClient THEN "write" ELSE "read"

\* the operation returns, or its last attempt throws; then releaseConnection
Exit(p, outcome) ==
  /\ clients[p].pc = "op"
  /\ outcome = "threw" => clients[p].attempt = retryAttempts
  /\ LET c == clients[p]
         release == outcome \in exitPaths
         waitQueue == waitersOf(queueOf(c))
         handOver == release /\ waitQueue # <<>>
         me == [c EXCEPT !.pc = "done", !.outcome = outcome, !.handle = "none",
                         !.conn = 0, !.attempt = 0,
                         !.released = IF release THEN @ + 1 ELSE @]
         callers == IF handOver
                    THEN [clients EXCEPT ![p] = me,
                            ![Head(waitQueue)] =
                               [@ EXCEPT !.pc = "op", !.handle = c.handle,
                                         !.conn = c.conn, !.attempt = 1]]
                    ELSE [clients EXCEPT ![p] = me]
         objects == IF release /\ c.handle = "pooled"
                    THEN [pooled EXCEPT ![c.conn].isActive = handOver]
                    ELSE pooled
     IN /\ clients' = callers
        /\ pooled' = collect(objects, writeConnections \cup readConnections, callers)
        /\ waitingForWrite' = IF handOver /\ queueOf(c) = "write"
                              THEN Tail(waitingForWrite) ELSE waitingForWrite
        /\ waitingForRead' = IF handOver /\ queueOf(c) = "read"
                             THEN Tail(waitingForRead) ELSE waitingForRead
  /\ UNCHANGED <<uploadVars, chunkVars, dayVars, queryVars, timingVars, walletAccount, isShutdown,
                 writeConnections, readConnections, booting, shutdownPc>>

\* the connections of the pools that are not active and can have been
\* unused for some time: a connection whose creator has yet to resume was
\* pushed in the same turn of the event loop (lastUsed is now)
inactive ==
  {c \in writeConnections \cup readConnections :
     /\ ~pooled[c].isActive
     /\ ~\E p \in Clients : clients[p].pc = "created" /\ clients[p].conn = c}

\* the health-check timer fires: the connections of idle, not active and not
\* used for maxIdleTime, are closed
PerformHealthCheck(idle) ==
  /\ ~isShutdown
  /\ idle # {}
  /\ idle \subseteq inactive
  /\ writeConnections' = writeConnections \ idle
  /\ readConnections' = readConnections \ idle
  /\ pooled' = collect(pooled, (writeConnections \cup readConnections) \ idle, clients)
  /\ UNCHANGED <<uploadVars, chunkVars, dayVars, queryVars, timingVars, walletAccount, isShutdown,
                 waitingForWrite, waitingForRead, clients, booting, shutdownPc>>

\* initialize(): the first connections are being created
Initialize ==
  /\ booting.stage = "new"
  /\ booting' = [stage |-> "started",
                 write |-> IF walletAccount THEN Min(1, maxWriteConnections) ELSE 0,
                 read |-> Min(2, maxReadConnections)]
  /\ UNCHANGED <<uploadVars, chunkVars, dayVars, queryVars, timingVars, walletAccount, isShutdown,
                 writeConnections, readConnections, waitingForWrite,
                 waitingForRead, pooled, clients, shutdownPc>>

\* the connection that the n-th pending creation of initialize() makes
initialId(kind, n) == IF kind = "write" THEN MaxClients + n ELSE MaxClients + 1 + n

\* one of the creations of initialize() settles: pushed, or failed
InitialConnection(kind, ok) ==
  /\ booting[kind] > 0
  /\ booting' = [booting EXCEPT ![kind] = @ - 1]
  /\ IF ok THEN pushed(kind, initialId(kind, booting[kind]))
     ELSE UNCHANGED <<pooled, writeConnections, readConnections>>
  /\ UNCHANGED <<uploadVars, chunkVars, dayVars, queryVars, timingVars, walletAccount, isShutdown,
                 waitingForWrite, waitingForRead, clients, shutdownPc>>

\* shutdown() up to its await: the flag is set, every connection is closed
Shutdown ==
  /\ shutdownPc = "none"
  /\ isShutdown' = TRUE
  /\ writeConnections' = {}
  /\ readConnections' = {}
  /\ pooled' = collect(pooled, {}, clients)
  /\ shutdownPc' = "closing"
  /\ UNCHANGED <<uploadVars, chunkVars, dayVars, queryVars, timingVars, walletAccount, waitingForWrite,
                 waitingForRead, clients, booting>>

\* shutdown() after its await: every waiter is resolved with {} and the
\* pools and queues are emptied
ShutdownDrain ==
  /\ shutdownPc = "closing"
  /\ LET callers == [p \in Clients |->
                       IF clients[p].pc = "waiting"
                       THEN [clients[p] EXCEPT !.pc = "op", !.handle = "sentinel",
                                               !.attempt = 1]
                       ELSE clients[p]]
     IN /\ clients' = callers
        /\ pooled' = collect(pooled, {}, callers)
  /\ writeConnections' = {}
  /\ readConnections' = {}
  /\ waitingForWrite' = <<>>
  /\ waitingForRead' = <<>>
  /\ shutdownPc' = "done"
  /\ UNCHANGED <<uploadVars, chunkVars, dayVars, queryVars, timingVars, walletAccount, isShutdown, booting>>

InitPool ==
  /\ UploadIdle
  /\ ChunkIdle
  /\ DayIdle
  /\ QueryIdle
  /\ TimingIdle
  /\ PoolInit

NextPool ==
  \/ \E p \in Clients, kind \in Kinds : GetConnection(p, kind)
  \/ \E p \in Clients : CreateConnection(p)
  \/ \E p \in Clients : CreateConnectionFails(p)
  \/ \E p \in Clients : Activate(p)
  \/ \E p \in Clients : OperationRetries(p)
  \/ \E p \in Clients, outcome \in {"returned", "threw"} : Exit(p, outcome)
  \/ \E idle \in SUBSET inactive : PerformHealthCheck(idle)
  \/ Initialize
  \/ \E kind \in Kinds, ok \in BOOLEAN : InitialConnection(kind, ok)
  \/ Shutdown
  \/ ShutdownDrain

SpecPool == InitPool /\ [][NextPool]_vars

\* what the event loop is bound to run: the continuations of the pool's own
\* awaits (not the callers' operations, not the calls from outside)
PoolStep ==
  \/ \E p \in Clients : CreateConnection(p) \/ CreateConnectionFails(p) \/ Activate(p)
  \/ \E kind \in Kinds, ok \in BOOLEAN : InitialConnection(kind, ok)
  \/ ShutdownDrain

SpecPoolFair == SpecPool /\ WF_vars(PoolStep)

(***************************************************************************)
(* QuotaService over calendar dates (one user, one request at a time;      *)
(* midnight passes while no quota call is in flight)                       *)
(***************************************************************************)
QuotaSizes == {11, 12}

\* the quota service and what it stands on, in a freshly started process
InitQuota ==
  /\ storageMode \in {"memory", "arkiv"}
  /\ batchWriter = FALSE
  /\ cacheInitialized \in BOOLEAN
  /\ redisConnected = cacheInitialized
  /\ redisSessions = [k \in Keys |-> NoSnapshot]
  /\ uploadSessions = [k \in Keys |-> 0]
  /\ sessions = [f \in FileIds |-> NoSession]
  /\ writer = [f \in FileIds |-> NoWriter]
  /\ store = {}
  /\ keyCache = [f \in FileIds |-> NoKeys]
  /\ calls = [s \in Slots |-> IdleCall]
  /\ returned = [k \in Keys |-> {}]
  /\ reader = IdleReader
  /\ faults = 0
  /\ userUsage = NoQuotaEntry
  /\ quotaCache = NoQuotaEntry
  /\ \E q0 \in InitialUsages :
       quotaLedger = IF storageMode = "arkiv" /\ q0.used_bytes > 0
                     THEN {QuotaEntry(q0.used_bytes, q0.uploads_today)} ELSE {}
  /\ quotaTask = [f \in FileIds |-> NoTask]
  /\ ChunkIdle
  /\ PoolIdle
  /\ DayIdle
  /\ QueryIdle
  /\ TimingIdle

QuotaDayFrame == <<storageMode, batchWriter, cacheInitialized, redisConnected,
                   redisSessions, uploadSessions, sessions, writer, store, keyCache,
                   calls, returned, reader, faults, chunkVars, poolVars,
                   queryVars, timingVars>>

\* shouldResetQuota(userId): its return value
shouldResetQuota == lastResetDate # 0 /\ lastResetDate # today

\* resetQuota(userId)
resetQuota ==
  IF userUsage.present THEN [userUsage EXCEPT !.uploads_today = 0] ELSE userUsage

\* checkQuota up to await getUserQuota: the bypass test, shouldResetQuota,
\* resetQuota and redisCache.deleteSessionData
CheckQuota(fileSize, bypass) ==
  /\ quotaCall.pc \in {"idle", "done"}
  /\ quotaDay' = [quotaDay EXCEPT !.seen = TRUE]
  /\ IF bypass
     THEN /\ quotaCall' = [IdleQuotaCall EXCEPT !.pc = "done", !.op = "check",
                             !.size = fileSize, !.bypass = TRUE, !.allowed = TRUE,
                             !.date = today, !.first = ~quotaDay.seen]
          /\ UNCHANGED <<lastResetDate, userUsage, quotaCache>>
     ELSE /\ quotaCall' = [IdleQuotaCall EXCEPT !.pc = "read", !.op = "check",
                             !.size = fileSize, !.date = today,
                             !.first = ~quotaDay.seen]
          /\ lastResetDate' = today
          /\ userUsage' = IF shouldResetQuota THEN resetQuota ELSE userUsage
          /\ quotaCache' = IF shouldResetQuota /\ cacheUsable THEN NoQuotaEntry
                           ELSE quotaCache
  /\ UNCHANGED <<today, observed, quotaLedger, quotaTask, QuotaDayFrame>>

\* GET /quota: quotaService.getQuotaInfo up to await getUserQuota
GetQuotaInfo ==
  /\ quotaCall.pc \in {"idle", "done"}
  /\ quotaDay' = [quotaDay EXCEPT !.seen = TRUE]
  /\ quotaCall' = [IdleQuotaCall EXCEPT !.pc = "read", !.op = "info",
                     !.date = today, !.first = ~quotaDay.seen]
  /\ UNCHANGED <<today, lastResetDate, observed, userUsage, quotaCache,
                 quotaLedger, quotaTask, QuotaDayFrame>>

\* getUserQuota of the QuotaService the route handlers hold (initializeServices
\* builds one of its own; UploadService charges the one it built itself): the
\* cache and the ledger are shared, the in-process map is never written
getQuotaInfo(answer) ==
  IF cacheUsable /\ quotaCache.present
  THEN [quota |-> quotaCache, usage |-> userUsage, cache |-> quotaCache]
  ELSE IF storageMode = "arkiv"
       THEN [quota |-> answer, usage |-> userUsage,
             cache |-> IF cacheUsable THEN answer ELSE quotaCache]
       ELSE [quota |-> QuotaEntry(0, 0), usage |-> userUsage, cache |-> quotaCache]

\* getUserQuota answers; checkQuota decides
ReadQuota(answer) ==
  /\ quotaCall.pc = "read"
  /\ LET g == IF quotaCall.op = "info" THEN getQuotaInfo(answer)
              ELSE getUserQuota(answer)
     IN /\ userUsage' = g.usage
        /\ quotaCache' = g.cache
        /\ observed' = [date |-> today, used_bytes |-> g.quota.used_bytes,
                        uploads_today |-> g.quota.uploads_today]
        /\ quotaCall' = [quotaCall EXCEPT
             !.pc = "done",
             !.used_bytes = g.quota.used_bytes,
             !.uploads_today = g.quota.uploads_today,
             !.clean = ~quotaDay.charged,
             !.allowed = quotaCall.op = "check" /\ quotaAllows(g.quota, quotaCall.size),
             !.reason = IF quotaCall.op = "info" \/ quotaAllows(g.quota, quotaCall.size)
                        THEN "" ELSE quotaReason(g.quota, quotaCall.size)]
  /\ UNCHANGED <<today, lastResetDate, quotaDay, quotaLedger, quotaTask,
                 QuotaDayFrame>>

\* the upload that was admitted goes on: updateUsage(userId, fileSize)
UpdateUsage(f) ==
  /\ quotaCall.pc = "done"
  /\ quotaCall.op = "check"
  /\ quotaCall.allowed
  /\ quotaDay.uploads < MaxUploads
  /\ quotaTask[f].stage = "none"
  /\ \A g \in FileIds : g < f => quotaTask[g].stage # "none"
  /\ userUsage' = chargedUsage(quotaCall.size)
  /\ quotaCache' = cachedUsage(chargedUsage(quotaCall.size))
  /\ quotaTask' = [quotaTask EXCEPT ![f] = usageTask("ledger", quotaCall.size)]
  /\ quotaCall' = IdleQuotaCall
  /\ quotaDay' = [quotaDay EXCEPT !.seen = TRUE, !.charged = TRUE,
                                   !.uploads = @ + 1]
  /\ UNCHANGED <<today, lastResetDate, observed, quotaLedger, QuotaDayFrame>>

\* the cache entry quota:<user> reaches its TTL of 600 s
CacheExpires ==
  /\ quotaCache.present
  /\ quotaCache' = NoQuotaEntry
  /\ UNCHANGED <<today, lastResetDate, quotaCall, observed, quotaDay, userUsage,
                 quotaLedger, quotaTask, QuotaDayFrame>>

\* new Date().toISOString().split('T')[0] changes; the quota entities on the
\* ledger carry the date of yesterday and no longer match the query
NewDay ==
  /\ today < MaxDays
  /\ quotaCall.pc # "read"
  /\ \A f \in FileIds : quotaTask[f].stage # "ledger"
  /\ today' = today + 1
  /\ quotaLedger' = {}
  /\ quotaDay' = [quotaDay EXCEPT !.seen = FALSE, !.charged = FALSE]
  /\ UNCHANGED <<lastResetDate, quotaCall, observed, userUsage, quotaCache,
                 quotaTask, QuotaDayFrame>>

NextQuota ==
  \/ \E fileSize \in QuotaSizes, bypass \in BOOLEAN : CheckQuota(fileSize, bypass)
  \/ GetQuotaInfo
  \/ \E answer \in LedgerAnswers : ReadQuota(answer)
  \/ \E f \in FileIds : UpdateUsage(f)
  \/ \E f \in FileIds, answer \in LedgerAnswers, ok \in BOOLEAN :
       QuotaLedgerWrite(f, answer, ok)
  \/ CacheExpires
  \/ NewDay

SpecQuota == InitQuota /\ [][NextQuota]_vars

(***************************************************************************)
(* SpecQuery: the query routes over ArkivMemoryStorage, from the return of *)
(* initiateUpload on.  File names are sequences of characters, a content   *)
(* type is the header value split at ';'.  A route handler starts only     *)
(* when no continuation of the writer is waiting on a settled promise.     *)
(***************************************************************************)
Filenames == {<<"q", ".", "t", "x", "t">>, <<"Q", ".", "T", "X", "T">>,
              <<"q", ".", "t", "a", "r", ".", "g", "z">>}
QueryContentTypes == {<<"text/plain">>, <<"text/plain", "charset=utf-8">>}
Owners == {"", "smoke-owner"}
QueryExtensions == {<<"t", "x", "t">>, <<"T", "X", "T">>, <<"g", "z">>}
QueryOwners == {"smoke-owner", "nobody"}

\* String.prototype.toLowerCase, character by character
lowerChar(ch) ==
  CASE ch = "Q" -> "q"
    [] ch = "T" -> "t"
    [] ch = "X" -> "x"
    [] OTHER -> ch

toLowerCase(str) == [j \in 1..Len(str) |-> lowerChar(str[j])]

\* filename.lastIndexOf('.'), counted from 0; -1 if there is none
lastIndexOf(str, ch) ==
  LET hits == {j \in 1..Len(str) : str[j] = ch}
  IN IF hits = {} THEN 0 - 1
     ELSE (CHOOSE j \in hits : \A o \in hits : o <= j) - 1

\* variant: the extension is kept as it is written in the file name
extractFileExtension_asWritten(filename) ==
  LET lastDotIndex == lastIndexOf(filename, ".")
  IN IF lastDotIndex > 0
     THEN SubSeq(filename, lastDotIndex + 2, Len(filename))
     ELSE <<>>

\* extractFileExtension
extractFileExtension(filename) ==
  LET lastDotIndex == lastIndexOf(filename, ".")
  IN IF lastDotIndex > 0
     THEN toLowerCase(SubSeq(filename, lastDotIndex + 2, Len(filename)))
     ELSE <<>>

\* createMetadata and "if (owner) metadata.owner = owner"
describedBy(filename, contentType, owner) ==
  [original_filename |-> filename, content_type |-> contentType,
   file_extension |-> extractFileExtension(filename), owner |-> owner]

\* storage.getAllMetadata(): every entry of the metadata map, as file_ids
getAllMetadata == {e.file_id : e \in {m \in store : m.type = "metadata"}}

getFilesByExtension(extension) ==
  {f \in getAllMetadata : fileAttributes[f].file_extension = toLowerCase(extension)}

getFilesByContentType(contentType) ==
  {f \in getAllMetadata : fileAttributes[f].content_type = contentType}

\* metadata.owner is undefined when no owner came with the upload
getFilesByOwner(owner) ==
  {f \in getAllMetadata : fileAttributes[f].owner # "" /\ fileAttributes[f].owner = owner}

\* the state in which initiateUpload has just returned WriterFile
InitQuery ==
  /\ storageMode = "memory"
  /\ batchWriter \in BOOLEAN
  /\ redisConnected \in BOOLEAN
  /\ cacheInitialized = redisConnected
  /\ \E size \in WriterSizes :
       LET sess == NewSession(FirstKey, size, DEFAULT_BTL_DAYS)
           used == QuotaEntry(size, 1)
       IN /\ sessions = [f \in FileIds |->
                           IF f = WriterFile THEN launchedSession(sess) ELSE NoSession]
          /\ writer = [f \in FileIds |->
                         IF f = WriterFile THEN launchedWriter(sess.total_chunks)
                         ELSE NoWriter]
          /\ redisSessions = [k \in Keys |->
                                IF redisConnected /\ k = FirstKey
                                THEN serializeSession(WriterFile, sess) ELSE NoSnapshot]
          /\ uploadSessions = [k \in Keys |->
                                 IF ~redisConnected /\ k = FirstKey THEN WriterFile ELSE 0]
          /\ userUsage = used
          /\ quotaCache = IF redisConnected THEN used ELSE NoQuotaEntry
  /\ quotaLedger = {}
  /\ store = {}
  /\ keyCache = [f \in FileIds |-> NoKeys]
  /\ calls = [s \in Slots |-> IdleCall]
  /\ returned = [k \in Keys |-> IF k = FirstKey THEN {WriterFile} ELSE {}]
  /\ reader = IdleReader
  /\ faults = 0
  /\ quotaTask = [f \in FileIds |-> NoTask]
  /\ ChunkIdle
  /\ PoolIdle
  /\ DayIdle
  /\ TimingIdle
  /\ \E filename \in Filenames, contentType \in QueryContentTypes, owner \in Owners :
       fileAttributes = [f \in FileIds |->
                           IF f = WriterFile
                           THEN describedBy(filename, contentType, owner)
                           ELSE NoAttributes]
  /\ listing = NoListing

\* the writer is between two awaits on ArkivMemoryStorage, whose promises are
\* settled when they are returned: its continuation runs before the next
\* request is looked at
continuationQueued ==
  storageMode = "memory" /\ \E f \in FileIds : writer[f].pc \in {"chunks", "meta"}

\* GET /files/by-extension/:extension
FilesByExtension(extension) ==
  /\ ~continuationQueued
  /\ listing' = [NoListing EXCEPT !.by = "extension", !.extension = extension,
                    !.files = getFilesByExtension(extension),
                    !.count = Cardinality(getFilesByExtension(extension))]
  /\ UNCHANGED <<uploadVars, chunkVars, poolVars, dayVars, timingVars, fileAttributes>>

\* GET /files/by-type/:content_type
FilesByContentType(contentType) ==
  /\ ~continuationQueued
  /\ listing' = [NoListing EXCEPT !.by = "type", !.content_type = contentType,
                    !.files = getFilesByContentType(contentType),
                    !.count = Cardinality(getFilesByContentType(contentType))]
  /\ UNCHANGED <<uploadVars, chunkVars, poolVars, dayVars, timingVars, fileAttributes>>

\* GET /files/by-owner/:owner
FilesByOwner(owner) ==
  /\ ~continuationQueued
  /\ listing' = [NoListing EXCEPT !.by = "owner", !.owner = owner,
                    !.files = getFilesByOwner(owner),
                    !.count = Cardinality(getFilesByOwner(owner))]
  /\ UNCHANGED <<uploadVars, chunkVars, poolVars, dayVars, timingVars, fileAttributes>>

NextQuery ==
  \/ StoreChunk(WriterFile, TRUE)
  \/ StoreMetadata(WriterFile, TRUE)
  \/ \E ok \in BOOLEAN : CacheEntityKeys(WriterFile, ok)
  \/ RedisDisconnect
  \/ RedisConnect
  \/ \E extension \in QueryExtensions : FilesByExtension(extension)
  \/ \E contentType \in QueryContentTypes : FilesByContentType(contentType)
  \/ \E owner \in QueryOwners : FilesByOwner(owner)

SpecQuery == InitQuery /\ [][NextQuery]_vars

(***************************************************************************)
(* SpecRetry: one ledger call inside ArkivStorage.retryBlockchainOperation, *)
(* and one operation inside withRetry                                      *)
(***************************************************************************)
MaxAttempts == 5

\* the ledger calls of ArkivStorage with the arguments of their call sites:
\* storeChunk and storeMetadata take the defaults, the batch calls pass 5, 2000
LedgerCalls ==
  {[operation |-> "storeChunk", maxRetries |-> 3, baseDelay |-> 1000],
   [operation |-> "storeMetadata", maxRetries |-> 3, baseDelay |-> 1000],
   [operation |-> "storeBatch", maxRetries |-> 5, baseDelay |-> 2000],
   [operation |-> "storeBatchChunks", maxRetries |-> 5, baseDelay |-> 2000]}

\* options a caller of withRetry can pass (maxDelay: its default and a lower one)
RetryOptions ==
  {[maxAttempts |-> n, baseDelay |-> b, maxDelay |-> m] :
     n \in 1..MaxAttempts, b \in {1000, 2000}, m \in {5000, 10000}}

\* retryBlockchainOperation: const delay = baseDelay * 2 ** (attempt - 1)
retryDelay(baseDelay, attempt) == baseDelay * 2 ^ (attempt - 1)

\* withRetry: const delay = Math.min(baseDelay * 2 ** (attempt - 1), maxDelay)
withRetryDelay(baseDelay, maxDelay, attempt) ==
  Min(baseDelay * 2 ^ (attempt - 1), maxDelay)

\* the wrapper has been called and is about to make its first attempt
InitRetry ==
  /\ UploadIdle
  /\ ChunkIdle
  /\ PoolIdle
  /\ DayIdle
  /\ QueryIdle
  /\ expiry = NoExpiry
  /\ \/ \E c \in LedgerCalls :
          retry = [NoRetry EXCEPT !.pc = "call", !.fn = "retryBlockchainOperation",
                                  !.operation = c.operation,
                                  !.maxRetries = c.maxRetries,
                                  !.baseDelay = c.baseDelay, !.attempt = 1]
     \/ \E o \in RetryOptions :
          retry = [NoRetry EXCEPT !.pc = "call", !.fn = "withRetry",
                                  !.operation = "operation",
                                  !.maxRetries = o.maxAttempts,
                                  !.baseDelay = o.baseDelay,
                                  !.maxDelay = o.maxDelay, !.attempt = 1]

RetryFrame == <<uploadVars, chunkVars, poolVars, dayVars, queryVars, expiry>>

\* return await operation(): the call succeeds and the wrapper returns
OperationReturns ==
  /\ retry.pc = "call"
  /\ retry' = [retry EXCEPT !.pc = "returned", !.calls = @ + 1]
  /\ UNCHANGED RetryFrame

\* catch (error): the last attempt throws, any other one sets the timer
OperationThrows ==
  /\ retry.pc = "call"
  /\ retry' =
       IF retry.attempt = retry.maxRetries
       THEN [retry EXCEPT !.pc = "threw", !.calls = @ + 1]
       ELSE [retry EXCEPT !.pc = "wait", !.calls = @ + 1,
               !.delays = Append(@,
                  IF retry.fn = "withRetry"
                  THEN withRetryDelay(retry.baseDelay, retry.maxDelay, retry.attempt)
                  ELSE retryDelay(retry.baseDelay, retry.attempt))]
  /\ UNCHANGED RetryFrame

\* await new Promise(resolve => setTimeout(resolve, delay)) settles
BackoffElapses ==
  /\ retry.pc = "wait"
  /\ retry' = [retry EXCEPT !.pc = "call", !.attempt = @ + 1]
  /\ UNCHANGED RetryFrame

NextRetry ==
  \/ OperationReturns
  \/ OperationThrows
  \/ BackoffElapses

SpecRetry == InitRetry /\ [][NextRetry]_vars

(***************************************************************************)
(* The expiration block of an upload: the BTL-Days header of POST /files,  *)
(* the block duration the ledger reports, and calculateExpirationBlock     *)
(***************************************************************************)
\* the characters of a decimal number, in the order of their values
DigitChars == <<"0", "1", "2", "3", "4", "5", "6", "7", "8", "9">>
isDigit(ch) == \E d \in 1..10 : DigitChars[d] = ch
digitValue(ch) == (CHOOSE d \in 1..10 : DigitChars[d] = ch) - 1

\* the number of leading digits of a sequence of characters
RECURSIVE leadingDigits(_)
leadingDigits(str) ==
  IF str = <<>> \/ ~isDigit(Head(str)) THEN 0 ELSE 1 + leadingDigits(Tail(str))

\* the value of a sequence of digits
RECURSIVE decimalValue(_)
decimalValue(digits) ==
  IF digits = <<>> THEN 0
  ELSE 10 * decimalValue(SubSeq(digits, 1, Len(digits) - 1))
         + digitValue(digits[Len(digits)])

\* parseInt(str): an optional sign, then the longest run of digits; what
\* follows is ignored, and no digit at all gives NaN
parseInt(str) ==
  LET signed == str # <<>> /\ Head(str) \in {"-", "+"}
      rest == IF signed THEN Tail(str) ELSE str
      n == leadingDigits(rest)
      magnitude == decimalValue(SubSeq(rest, 1, n))
  IN IF n = 0 THEN [nan |-> TRUE, value |-> 0]
     ELSE [nan |-> FALSE,
           value |-> IF signed /\ Head(str) = "-" THEN 0 - magnitude ELSE magnitude]

\* c.req.header('BTL-Days') as the clients of the model send it (<<>>: no header)
BtlHeaders == {<<>>, <<"7">>, <<"0">>, <<"3", "0">>, <<"-", "1">>,
               <<"1", ".", "5">>, <<"a", "b">>}
\* timing.blockDuration as the ledger can report it, in seconds
ReportedDurations == {0, 1, 2, 7, 12}
\* Date.now() / 1000 at the requests
ClockReadings == {1700000000, 1700000001, 1700000013}
firstReading == CHOOSE t \in ClockReadings : \A u \in ClockReadings : t <= u

\* ArkivStorage.estimateCurrentBlock
estimateBlockAt(now, blockDurationSeconds) == now \div blockDurationSeconds

\* calculateExpirationBlock of the two storages, for a block duration and a
\* clock reading
expirationBlockOf(storage, btl_days, blockDurationSeconds, now) ==
  IF storage = "memory"
  THEN currentBlock + btl_days * BLOCKS_PER_DAY
  ELSE LET blocksPerDay == (24 * 60 * 60) \div blockDurationSeconds
       IN estimateBlockAt(now, blockDurationSeconds) + btl_days * blocksPerDay

\* the storage is constructed; ArkivStorage begins with the default block time
InitExpiry ==
  /\ UploadIdle
  /\ ChunkIdle
  /\ PoolIdle
  /\ DayIdle
  /\ QueryIdle
  /\ retry = NoRetry
  /\ \E st \in {"memory", "arkiv"} :
       expiry = [NoExpiry EXCEPT !.storage = st, !.now = firstReading,
                   !.block_duration = IF st = "arkiv" THEN DEFAULT_BLOCK_TIME_SECONDS
                                      ELSE 0]

ExpiryFrame == <<uploadVars, chunkVars, poolVars, dayVars, queryVars, retry>>

\* updateBlockTiming: the reported duration replaces the default if positive
UpdateBlockTiming(blockDuration) ==
  /\ expiry.pc = "idle"
  /\ expiry.storage = "arkiv"
  /\ expiry' = [expiry EXCEPT !.block_duration =
                   IF blockDuration > 0 THEN blockDuration ELSE @]
  /\ UNCHANGED ExpiryFrame

\* POST /files: const btlDays = parseInt(c.req.header('BTL-Days') || '7')
ParseBtlDays(header) ==
  /\ expiry.pc = "idle"
  /\ LET btlDays == parseInt(IF header = <<>> THEN <<"7">> ELSE header)
     IN expiry' = [expiry EXCEPT !.pc = "parsed", !.header = header,
                                 !.btl_days = btlDays.value, !.nan = btlDays.nan]
  /\ UNCHANGED ExpiryFrame

\* initiateUpload: calculateExpirationBlock(btlDays), then createMetadata and
\* chunkFile give every entity that expiration_block (NaN stays NaN)
CreateEntities ==
  /\ expiry.pc = "parsed"
  /\ expiry' = [expiry EXCEPT
        !.pc = "created",
        !.current_block = IF expiry.storage = "memory" THEN currentBlock
                          ELSE estimateBlockAt(expiry.now, expiry.block_duration),
        !.expiration_block =
           IF expiry.nan THEN 0
           ELSE expirationBlockOf(expiry.storage, expiry.btl_days,
                                  expiry.block_duration, expiry.now)]
  /\ UNCHANGED ExpiryFrame

\* the request is answered and time passes until the next one; the storage
\* keeps its block duration
RequestAnswered(now) ==
  /\ expiry.pc = "created"
  /\ now > expiry.now
  /\ expiry' = [NoExpiry EXCEPT !.storage = expiry.storage, !.now = now,
                                !.block_duration = expiry.block_duration]
  /\ UNCHANGED ExpiryFrame

NextExpiry ==
  \/ \E d \in ReportedDurations : UpdateBlockTiming(d)
  \/ \E h \in BtlHeaders : ParseBtlDays(h)
  \/ CreateEntities
  \/ \E t \in ClockReadings : RequestAnswered(t)

SpecExpiry == InitExpiry /\ [][NextExpiry]_vars

(***************************************************************************)
(* Properties of the upload pipeline                                       *)
(***************************************************************************)
SessionsOf(k) == {f \in FileIds : sessions[f].exists /\ sessions[f].idempotency_key = k}

\* C1: once a call with key k has returned a file_id, a later admitted call
\* with the same key returns that same file_id, creates no session and starts
\* no writer
C1_SequentialIdempotency ==
  [][\A s \in Slots :
       (calls[s].pc = "find" /\ calls[s].repeat /\ calls'[s].pc # "find")
         => /\ calls'[s].pc = "idle"
            /\ returned'[calls[s].key] = returned[calls[s].key]
            /\ Cardinality(returned[calls[s].key]) = 1
            /\ sessions' = sessions
            /\ writer' = writer]_vars

\* C2: when calls with the same key overlap (none of that key has returned
\* before they enter), the key gets at most one session and one writer, and
\* the calls return one and the same file_id
C2_ConcurrentIdempotency ==
  [][\A s \in Slots, k \in Keys :
       (calls[s].pc = "find" /\ calls[s].key = k /\ calls[s].rivals /\ ~calls[s].repeat
          /\ calls'[s].pc # "find")
         => /\ Cardinality(SessionsOf(k)') <= 1
            /\ Cardinality({f \in FileIds : writer'[f].pc # "none"
                              /\ sessions'[f].idempotency_key = k}) <= 1
            /\ Cardinality(returned'[k]) <= 1]_vars

\* C3: a getFile of a file whose session is COMPLETED succeeds and hands back
\* the uploaded payload, whichever path the writer took
C3_CompletedIsRetrievable ==
  (reader.pc = "done" /\ reader.completedAtStart) => (reader.success /\ reader.intact)

\* C5: no step lowers chunks_uploaded_to_blockchain of a session or takes it
\* beyond total_chunks
C5_ProgressMonotone ==
  [][\A f \in FileIds :
       /\ sessions'[f].chunks_uploaded_to_blockchain
            >= sessions[f].chunks_uploaded_to_blockchain
       /\ sessions'[f].chunks_uploaded_to_blockchain <= sessions'[f].total_chunks]_vars

\* C6: a COMPLETED session has all its chunks uploaded, and the metadata and
\* every chunk carry an entity key, in either storage mode
C6_CompletedHasKeys ==
  \A f \in FileIds :
    sessions[f].status = COMPLETED
      => /\ sessions[f].chunks_uploaded_to_blockchain = sessions[f].total_chunks
         /\ sessions[f].metadata_entity_key # NoKey
         /\ \A j \in 1..sessions[f].total_chunks : sessions[f].chunk_entity_keys[j] # NoKey

StatusCompleted(v) ==
  v.found /\ v.status = COMPLETED /\ v.chunks_uploaded_to_blockchain = v.total_chunks

\* C7: if no ledger write of the writer fails, a status read by key and one by
\* file_id eventually show completed with all chunks uploaded, wherever the
\* session was stored
C7_StatusEventuallyCompleted ==
  [](faults = MaxLedgerFailures)
    => <>(/\ StatusCompleted(getUploadStatus(FirstKey, TRUE))
          /\ StatusCompleted(getUploadStatusByFileId(WriterFile, TRUE)))

\* what a quota lookup can answer
quotaReadings ==
  {[used_bytes |-> getUserQuota(a).quota.used_bytes,
    uploads_today |-> getUserQuota(a).quota.uploads_today] : a \in LedgerAnswers}

C27_EachEntityStoredOnce ==
  \A f \in FileIds :
    (writer[f].pc = "done" /\ sessions[f].total_chunks > 0)
      => /\ \A i \in 0..(sessions[f].total_chunks - 1) :
              /\ Cardinality({e \in Entities(f, "chunk") : e.origin = i}) <= 1
              /\ sessions[f].status = COMPLETED
                   => Cardinality({e \in Entities(f, "chunk") : e.origin = i}) = 1
         /\ Cardinality(Entities(f, "metadata")) <= 1
         /\ sessions[f].status = COMPLETED => Cardinality(Entities(f, "metadata")) = 1

\* C10: a writer whose batch failed and whose individual writes from the start
\* of that batch on (and of the metadata, after the first batch) all
\* succeeded ends with the session COMPLETED
C10_FallbackCompletes ==
  \A f \in FileIds :
    (writer[f].pc = "done" /\ writer[f].fb = "ok") => sessions[f].status = COMPLETED

\* C11: a getFile that started before the session was COMPLETED takes its
\* steps whatever the writer is doing, and if it reports success what it
\* hands back is the whole payload
C11_ReadDuringWrite ==
  /\ (reader.pc = "chunks") ~> (reader.pc = "done")
  /\ []((reader.pc = "done" /\ ~reader.completedAtStart /\ reader.success)
          => reader.intact)

\* a getFile succeeded while the writer of the file still had steps to take
C11_Witness ==
  /\ reader.pc = "done"
  /\ reader.success
  /\ reader.intact
  /\ ~reader.completedAtStart
  /\ writer[reader.file_id].pc \notin {"none", "done"}

\* C12: when the metadata of a file is present and getFile finds a number of
\* chunks different from metadata.chunk_count, it fails with the
\* file-incomplete error (not with not-found, not with integrity-failed)
C12_TruncatedIsIncomplete ==
  [][(/\ GetFileChunks
      /\ liveMetadata(reader.file_id) # {}
      /\ Len(getAllChunks(reader.file_id))
           # chunk_count(sessions[reader.file_id].size))
       => reader'.error = "File chunks not found or incomplete"]_vars

\* C24: the entity keys on offer for the file of a COMPLETED session are a
\* metadata key and one key per chunk, in the order of the chunks, so that
\* the entities lookup counts at least one entity
C24_CompletedHasKeyIndex ==
  \A f \in FileIds :
    sessions[f].status = COMPLETED
      => LET entityKeys == getFileEntityKeys(f, TRUE)
         IN /\ entityKeys.metadata_key # NoKey
            /\ Len(entityKeys.chunk_keys) = sessions[f].total_chunks
            /\ \A j \in 1..Len(entityKeys.chunk_keys) :
                 entityKeys.chunk_keys[j][2] = j - 1
            /\ total_entities(entityKeys) > 0

(***************************************************************************)
(* Properties of the connection pool                                       *)
(***************************************************************************)
\* C13: at every instant each of the two pools holds at most its configured
\* maximum of connections (in use plus idle)
C13_PoolBounded ==
  /\ Cardinality(writeConnections) <= maxWriteConnections
  /\ Cardinality(readConnections) <= maxReadConnections

\* a caller gets hold of a pooled connection in this step
obtains(p) ==
  /\ clients[p].pc # "op"
  /\ clients'[p].pc = "op"
  /\ clients'[p].handle = "pooled"

\* C14: a released connection goes to the oldest waiter of its kind, and no
\* caller that arrived later obtains a connection of a kind while an earlier
\* caller is still queued for that kind
C14_WaitersFifo ==
  [][\A p \in Clients :
       obtains(p) =>
         /\ clients[p].pc = "waiting" => p = Head(waitersOf(clients[p].kind))
         /\ ~\E w \in Clients : /\ w < p
                                /\ clients[w].pc = "waiting"
                                /\ clients'[w].pc = "waiting"
                                /\ clients[w].kind = clients'[p].kind]_vars

\* C15: a caller queued on a full pool does not stay queued forever
C15_QueuedAcquisitionCompletes ==
  \A p \in Clients : (clients[p].pc = "waiting") ~> (clients[p].pc # "waiting")

\* C16: an executeWith*Connection call that got a connection has released it
\* exactly once when it is over, however the operation ended, and at that
\* moment the connection is idle or in the hands of a waiter
C16_ReleasedOnEveryExit ==
  /\ [](\A p \in Clients :
          (clients[p].pc = "done" /\ clients[p].outcome # "")
             => clients[p].released = 1)
  /\ [][\A p \in Clients :
          (clients[p].pc = "op" /\ clients'[p].pc = "done"
             /\ clients[p].handle = "pooled")
            => \/ ~pooled'[clients[p].conn].isActive
               \/ \E w \in Clients : /\ clients[w].pc = "waiting"
                                      /\ clients'[w].pc = "op"
                                      /\ clients'[w].conn = clients[p].conn]_vars

\* a call whose operation threw on its last attempt and a call whose
\* operation returned are over, one of them having passed its connection on
C16_Witness ==
  /\ \E p \in Clients : /\ clients[p].pc = "done"
                         /\ clients[p].outcome = "threw"
                         /\ clients[p].released = 1
  /\ \E p \in Clients : /\ clients[p].pc = "done"
                         /\ clients[p].outcome = "returned"
                         /\ clients[p].released = 1
  /\ \E p \in Clients : clients[p].pc = "op" /\ clients[p].handle = "pooled"
                         /\ clients[p].conn # p

\* C17: once shutdown() has set its flag every new get*Connection fails, and
\* the callers queued at that moment leave the queue: no waiter stays pending
C17_ShutdownRefusesAndDrains ==
  /\ [][\A p \in Clients :
          (isShutdown /\ clients[p].pc = "idle" /\ clients'[p].pc # "idle")
            => /\ clients'[p].pc = "done"
               /\ clients'[p].error = "Connection pool is shutdown"]_vars
  /\ isShutdown ~> (/\ waitingForWrite = <<>>
                     /\ waitingForRead = <<>>
                     /\ \A p \in Clients : clients[p].pc # "waiting")
  /\ [](shutdownPc = "done" => /\ waitingForWrite = <<>>
                                /\ waitingForRead = <<>>
                                /\ \A p \in Clients : clients[p].pc # "waiting")

\* shutdown() is over, a caller that was queued holds what shutdown gave it,
\* and calls of both kinds made after the flag was set were refused
C17_Witness ==
  /\ shutdownPc = "done"
  /\ \E p \in Clients : clients[p].handle = "sentinel"
  /\ \E p \in Clients : /\ clients[p].error = "Connection pool is shutdown"
                         /\ clients[p].kind = "write"

\* C26: no two callers are at work on the same pooled connection: from the
\* moment get*Connection or a release hands a connection to a caller until
\* that caller releases it, nobody else is given it
C26_ConnectionIsExclusive ==
  \A p \in Clients, q \in Clients :
    (/\ p # q
     /\ clients[p].pc = "op" /\ clients[p].handle = "pooled"
     /\ clients[q].pc = "op" /\ clients[q].handle = "pooled")
      => clients[p].conn # clients[q].conn

\* C34: a step of the health check removes from the pools no connection that
\* a caller is at work on
C34_EvictsIdleOnly ==
  [][(~isShutdown /\ ~isShutdown')
       => \A c \in (writeConnections \cup readConnections)
                     \ (writeConnections' \cup readConnections') :
            \A p \in Clients :
              ~(clients[p].pc = "op" /\ clients[p].handle = "pooled"
                  /\ clients[p].conn = c)]_vars

(***************************************************************************)
(* Properties of the quota service                                         *)
(***************************************************************************)
\* C18: a checkQuota call without the bypass key answers allowed exactly when
\* the quota it read has used_bytes + bytes <= max_bytes and uploads_today <
\* max_uploads_per_day; with the bypass key it answers allowed whatever the usage
C18_CheckQuotaDecision ==
  (quotaCall.pc = "done" /\ quotaCall.op = "check")
    => IF quotaCall.bypass THEN quotaCall.allowed
       ELSE quotaCall.allowed <=>
              /\ quotaCall.used_bytes + quotaCall.size <= FREE_TIER_MAX_BYTES
              /\ quotaCall.uploads_today < FREE_TIER_MAX_UPLOADS_PER_DAY

\* a check without the key was allowed an upload that fills the quota exactly
C18_Witness ==
  /\ quotaCall.pc = "done"
  /\ quotaCall.op = "check"
  /\ ~quotaCall.bypass
  /\ quotaCall.allowed
  /\ quotaCall.used_bytes + quotaCall.size = FREE_TIER_MAX_BYTES
  /\ quotaCall.uploads_today = FREE_TIER_MAX_UPLOADS_PER_DAY - 1

\* C19: within one calendar date the used_bytes and uploads_today handed to
\* checkQuota and getQuotaInfo never decrease from one reading to the next
C19_QuotaMonotoneWithinDate ==
  [][(observed.date = today /\ observed'.date = today)
       => /\ observed'.used_bytes >= observed.used_bytes
          /\ observed'.uploads_today >= observed.uploads_today]_vars

\* C20: the first quota interaction of a date later than the one the process
\* started on, being a checkQuota without the bypass key made before any
\* upload of that date, reads uploads_today = 0
C20_FirstCheckOfDateSeesZero ==
  (/\ quotaCall.pc = "done"
   /\ quotaCall.op = "check"
   /\ ~quotaCall.bypass
   /\ quotaCall.first
   /\ quotaCall.clean
   /\ quotaCall.date > 1)
    => quotaCall.uploads_today = 0

\* C21: a quota report of GET /quota made after an upload of the same date was
\* accepted and charged shows at least one upload and at least the bytes of
\* the smallest payload offered
C21_QuotaEndpointSeesUpload ==
  (quotaCall.pc = "done" /\ quotaCall.op = "info" /\ ~quotaCall.clean)
    => /\ quotaCall.uploads_today >= 1
       /\ \A size \in QuotaSizes :
            (\A other \in QuotaSizes : size <= other) => quotaCall.used_bytes >= size

\* initiateUpload passes its call of updateUsage (slot s)
usageCharged(s) ==
  /\ calls[s].pc \in {"find", "store"}
  /\ \/ calls'[s].pc = "usage"
     \/ /\ calls'[s].pc = "idle"
        /\ \E f \in FileIds : writer[f].pc = "none" /\ writer'[f].pc # "none"

\* the detached storage.updateUserQuota of file f settles, written or not
usageCommitSettles(f) ==
  quotaTask[f].stage = "ledger" /\ quotaTask'[f].stage = "none"

storedFile(s) ==
  IF calls'[s].pc = "usage" THEN calls'[s].file_id
  ELSE CHOOSE f \in FileIds : writer[f].pc = "none" /\ writer'[f].pc # "none"

C25_UploadedFileIsListed ==
  LET own == fileAttributes[WriterFile]
      asked == \/ listing.by = "extension" /\ listing.extension = own.file_extension
               \/ listing.by = "type" /\ listing.content_type = own.content_type
               \/ /\ listing.by = "owner"
                  /\ own.owner # ""
                  /\ listing.owner = own.owner
  IN asked => (listing.count >= 1 /\ WriterFile \in listing.files)

\* a file uploaded under a name in capitals was found by its extension
C25_Witness ==
  /\ fileAttributes[WriterFile].original_filename[1] = "Q"
  /\ listing.by = "extension"
  /\ listing.extension = <<"t", "x", "t">>
  /\ listing.files = {WriterFile}
  /\ listing.count = 1

(***************************************************************************)
(* Properties of quota admission                                           *)
(***************************************************************************)
withinLimits(quota) ==
  /\ quota.used_bytes <= FREE_TIER_MAX_BYTES
  /\ quota.uploads_today <= FREE_TIER_MAX_UPLOADS_PER_DAY

\* C28: with no request presenting the bypass key, the usage the service has
\* committed for the user (its counter, the cache entry and the quota entities
\* on the ledger) never exceeds max_bytes or max_uploads_per_day, however the
\* calls interleave
C28_NoOverAdmission ==
  /\ withinLimits(userUsage)
  /\ withinLimits(quotaCache)
  /\ \A quota \in quotaLedger : withinLimits(quota)

(***************************************************************************)
(* Properties of the session store under cache outages                     *)
(***************************************************************************)
\* C29: a call that repeats a key whose session has been stored, in the cache
\* while it was connected or in the in-process map while it was not, returns
\* a file_id already returned for the key and creates no session, whether the
\* cache is connected, away or failing when the call looks the key up
C29_IdempotencyAcrossCacheChanges ==
  [][\A s \in Slots, k \in Keys :
       (/\ calls[s].pc = "find" /\ calls[s].key = k /\ calls[s].repeat
        /\ redisSessions[k].present \/ uploadSessions[k] # 0
        /\ calls'[s].pc # "find")
         => /\ calls'[s].pc = "idle"
            /\ returned'[k] = returned[k]
            /\ SessionsOf(k)' = SessionsOf(k)]_vars

(***************************************************************************)
(* Properties of the writer's end                                          *)
(***************************************************************************)
\* a write the file needs has failed for good: with no failed batch, any
\* failed write; after a failed batch, a failed write of the fallback
requiredWriteFailed(f) ==
  IF writer[f].fb = "none" THEN faults < MaxLedgerFailures
  ELSE writer[f].fb = "failed"

\* C30: the writer finishes, the session is then COMPLETED or FAILED, and it
\* is FAILED, with an error text, exactly when a write the file needs failed
\* after its retries and the fallback
C30_WriterTerminates ==
  /\ <>(writer[WriterFile].pc = "done")
  /\ [](writer[WriterFile].pc = "done"
          => /\ sessions[WriterFile].status \in {COMPLETED, FAILED}
             /\ (sessions[WriterFile].status = FAILED)
                  <=> (sessions[WriterFile].error # "")
             /\ (sessions[WriterFile].status = FAILED)
                  <=> requiredWriteFailed(WriterFile))

(***************************************************************************)
(* Properties of the session's lifecycle                                   *)
(***************************************************************************)
\* C31: a session that has left UPLOADING keeps its status: COMPLETED stays
\* COMPLETED and FAILED stays FAILED; and completed is true exactly when the
\* status is COMPLETED
C31_StatusIsTerminal ==
  /\ [][\A f \in FileIds :
          /\ sessions[f].status = COMPLETED => sessions'[f].status = COMPLETED
          /\ sessions[f].status = FAILED => sessions'[f].status = FAILED]_vars
  /\ [](\A f \in FileIds :
          sessions[f].exists => (sessions[f].completed <=> sessions[f].status = COMPLETED))

\* a writer has failed a session after part of the file was stored
C31_Witness ==
  /\ writer[WriterFile].pc = "done"
  /\ sessions[WriterFile].status = FAILED
  /\ ~sessions[WriterFile].completed
  /\ sessions[WriterFile].chunks_uploaded_to_blockchain > 0

\* the writer of f takes the individual path from the start
individualPath == ~(batchWriter /\ hasStoreBatch)

\* C32: with the individual writer, whenever getMetadata(file_id) finds the
\* metadata, the storage holds every one of the file's chunk_count chunks
C32_MetadataAfterChunks ==
  \A f \in FileIds :
    (individualPath /\ liveMetadata(f) # {})
      => \A i \in 0..(sessions[f].total_chunks - 1) :
           \E e \in Entities(f, "chunk") : e.origin = i

\* the individual writer has stored the metadata of a file of several chunks
C32_Witness ==
  /\ individualPath
  /\ liveMetadata(WriterFile) # {}
  /\ sessions[WriterFile].total_chunks > 1
  /\ writer[WriterFile].pc \in {"keys", "done"}

(***************************************************************************)
(* Properties of the quota charge                                          *)
(***************************************************************************)
\* the sessions whose initiateUpload has gone past updateUsage
committedSessions ==
  {f \in FileIds : /\ sessions[f].exists
                   /\ \A s \in Slots : ~(calls[s].pc = "store" /\ calls[s].file_id = f)}

C35_RetryBudgetAndBackoff ==
  retry.fn = "retryBlockchainOperation"
    => LET batch == retry.operation \in {"storeBatch", "storeBatchChunks"}
           base == IF batch THEN 2000 ELSE 1000
       IN /\ retry.calls <= (IF batch THEN 5 ELSE 3)
          /\ retry.pc = "returned" => retry.calls = Len(retry.delays) + 1
          /\ \A n \in 1..Len(retry.delays) :
               retry.delays[n] = Min(base * 2 ^ (n - 1), 10000)

\* C36: every chunk in the storage, created with the zero-based index i, is
\* what getChunk(file_id, i) hands back, and getAllChunks lists it under i
C36_OneIndexConvention ==
  \A f \in FileIds :
    /\ \A e \in Entities(f, "chunk") :
         /\ getChunk(f, e.origin) # {}
         /\ \A c \in getChunk(f, e.origin) : c.data = e.data
    /\ storageMode = "arkiv"
         => LET chunks == getAllChunks(f)
            IN \A j \in 1..Len(chunks) : chunks[j].chunk_index = chunks[j].origin

(***************************************************************************)
(* Properties of the order of the writes                                   *)
(***************************************************************************)
\* the states in which the writer's next step is a write of chunks, and the
\* chunks that step attempts
attempting(f) == writer[f].pc \in {"batch", "fallback", "chunks"}
attempted(f) ==
  IF writer[f].pc = "batch"
  THEN writer[f].i .. (Min(writer[f].i + BATCH_SIZE, sessions[f].total_chunks) - 1)
  ELSE IF writer[f].pc \in {"fallback", "chunks"} THEN {writer[f].i}
  ELSE {}

\* C37: the writer of a session goes through the chunks upwards -- an attempt
\* never begins below the chunk where the attempt before it began -- and a
\* batch is one of the consecutive ranges of at most BATCH_SIZE chunks, the
\* metadata written with the first range only
C37_AscendingWrites ==
  [][\A f \in FileIds :
       /\ (writer[f].pc \in {"batch", "fallback", "fbmeta", "chunks"} /\ attempting(f)')
            => writer'[f].i >= writer[f].i
       /\ (writer[f].pc = "batch" /\ writer'[f] # writer[f])
            => /\ writer[f].i % BATCH_SIZE = 0
               /\ Cardinality(attempted(f)) \in 1..BATCH_SIZE
               /\ \A e \in store' \ store :
                    /\ e.file_id = f
                    /\ e.type = "chunk" => e.origin \in attempted(f)
                    /\ e.type = "metadata" => writer[f].i = 0]_vars

\* C38: the entities of an upload are created with an expiration block
\* beyond the current block, whatever the BTL-Days header was
C38_ExpiresAfterCurrentBlock ==
  expiry.pc = "created"
    => /\ ~expiry.nan
       /\ expiry.expiration_block >= expiry.current_block + 1

\* C40: on the ledger storage the expiration block is the current block plus
\* floor(btl_days * 86400 / block duration)
C40_ExpirationBlockFormula ==
  (expiry.pc = "created" /\ expiry.storage = "arkiv" /\ ~expiry.nan)
    => expiry.expiration_block =
         expiry.current_block
           + (expiry.btl_days * 86400) \div expiry.block_duration

(***************************************************************************)
(* Properties of the chunks chunkFile emits                                *)
(***************************************************************************)
RECURSIVE sumOriginalSizes(_)
sumOriginalSizes(chunks) ==
  IF chunks = <<>> THEN 0 ELSE Head(chunks).original_size + sumOriginalSizes(Tail(chunks))

\* C39: chunkFile hands back the chunks 0 .. N-1 in this order, N being
\* ceil(len / chunk size) and the chunk_count of the metadata; every chunk but
\* the last has the chunk size, and the sizes add up to the payload's length,
\* the total_size of the metadata
C39_ChunksDenseAndComplete ==
  [][(reassembled.stage = "new" /\ reassembled'.stage = "chunked")
       => LET chunks == chunkOrder'
              N == Len(chunks)
              metadata == createMetadata(fileBuffer, chunkSize)
          IN /\ N * chunkSize >= Len(fileBuffer)
             /\ (N - 1) * chunkSize < Len(fileBuffer) \/ N = 0
             /\ N = metadata.chunk_count
             /\ \A j \in 1..N : chunks[j].chunk_index = j - 1
             /\ \A j \in 1..(N - 1) : chunks[j].original_size = chunkSize
             /\ sumOriginalSizes(chunks) = Len(fileBuffer)
             /\ metadata.total_size = Len(fileBuffer)]_vars

\* chunkFile has emitted several chunks, the last one shorter than the others
C39_Witness ==
  /\ reassembled.stage = "chunked"
  /\ Len(chunkOrder) >= 2
  /\ \A j \in 1..Len(chunkOrder) : chunkOrder[j].chunk_index = j - 1
  /\ chunkOrder[Len(chunkOrder)].original_size < chunkSize

====
